---- MODULE Spec2Model ----
(***************************************************************************)
(* Token service of the image-task backend: refresh-token rotation,        *)
(* session tracking, session-limit eviction, theft response and cleanup    *)
(* (backend/app/services/token_service.py), over the tables declared in    *)
(* backend/app/models/token.py and backend/app/models/user.py.             *)
(*                                                                         *)
(* Every request handler runs in its own SQLAlchemy session.  A handler is *)
(* split at its SQL statements: a SELECT reads the committed tables at the *)
(* moment it runs, the writes of the unit of work reach the tables at      *)
(* db.commit().  No handler takes a row lock (no with_for_update, no       *)
(* isolation level is configured), so other requests may commit between a  *)
(* handler's SELECT and its commit.                                        *)
(***************************************************************************)
EXTENDS Integers, Sequences, FiniteSets, TLC

\* ---- bounds -------------------------------------------------------------
NumProcs == 2
MaxRows == 3
MaxTime == 7
NumIps == 2
SessionLimit == 2
MaxCalls == 3
MaxFailedLogins == 5
AuditHorizon == 135
MaxHour == 26
MaxIssued == 1
MaxMinted == 1
JwtHorizon == 3
NumReqs == 2
MaxTasks == 2
MaxOrders == 1
MaxLost == 1
InitialCredits == 1

\* ---- program constants --------------------------------------------------
RefreshDays == 7
RememberDays == 30
DefaultMaxSessions == 5
InactiveDays == 30
RetentionDays == 90
SUSPICIOUS_ACTIVITY_THRESHOLD == 5
MonitorHours == 1
CookieMaxAgeHours == 24
JWT_SECRET == 1
ACCESS_TOKEN_EXPIRE_MINUTES == 15
MinutesPerDay == 1440
DbErrorRetries == 3
OtherErrorRetries == 2
RupeesPerCredit == 10
PaisePerRupee == 100
IsoBase == 100000
NotIso == 1

Procs == 1..NumProcs
IpAddresses == 1..NumIps
LoginIps == {1}
UserAgents == {1}
TickDays == {RefreshDays}
AuditTickDays == {45}
Emails == {1, 2}
ClientKeys == {2}
HourSteps == {12, 13}
AccessJtis == {11, 12}
ExpiresDeltas == {0, 2}
BlacklistUntil == {1, 2}
JwtTickDays == {1}
SigningKeys == {JWT_SECRET} \cup ClientKeys
Reqs == 1..NumReqs
TaskIds == 1..MaxTasks
OrderIds == 1..MaxOrders
WebhookIds == {1, 2}
PurchaseSizes == {2}
RetryLimits == {DbErrorRetries, OtherErrorRetries}
Hours == {0, 12, 13, 24, 25, 26}
Passwords == {1, 2}
Secrets == 1..MaxRows
SessionIds == 1..MaxRows
Jtis == {1}
BlacklistDays == {RefreshDays}
NULL == 0
NoTime == -1

VARIABLES
  users,           \* users table: id -> row
  refresh_tokens,  \* refresh_tokens table: id -> row
  user_sessions,   \* user_sessions table: session_id -> row
  security_logs,   \* security_logs table: committed rows
  next_token_id,   \* refresh_tokens.id sequence
  next_session_id, \* generate_session_id(): next fresh session id
  now,             \* datetime.utcnow(), in days
  autoflush,       \* sessionmaker(autoflush=...)
  token_blacklist, \* token_blacklist table: jti -> row
  job,             \* position of the periodic cleanup job in run_full_cleanup
  calls,           \* requests received so far
  procs,           \* per request slot: position in the handler and its locals
  ret,             \* what the latest step returned to its caller, if it ended a handler
  rotations,       \* history: secret -> number of refreshes that rotated it
  chain,           \* history: refresh token id -> session it was minted for
  failed_logins,   \* history: ip -> logins refused within the monitoring window
  hour,            \* datetime.utcnow() as the cookie manager reads it, in hours
  issued,          \* history: the cookies sign_cookie_data returned, with their payload
  verified,        \* the latest verify_cookie_data call: its argument and what it returned
  access_tokens,   \* history: the access tokens create_access_token returned
  decoded,         \* the latest verify_token call: its argument and what it returned
  revoked_families, \* history: the family ids whose revoke_token_family has returned
  credits,         \* users.credits: user id -> balance
  tasks,           \* tasks table: id -> row
  celery,          \* the broker: the process_image_task messages not yet acknowledged
  worker,          \* the Celery worker: the message it runs and how far it got
  payments,        \* payments table: razorpay_order_id -> row
  webhook_events,  \* webhook_events table: webhook_id -> status
  reqs,            \* per billing request slot: position in the route and its locals
  outcome,         \* what the latest billing step returned, if it ended a handler
  ledger           \* history: credits charged per task, refunded per task, added per order

vars == <<users, refresh_tokens, user_sessions, security_logs, next_token_id,
          next_session_id, now, autoflush, token_blacklist, job, calls, procs, ret,
          rotations, chain, failed_logins, hour, issued, verified,
          access_tokens, decoded, revoked_families, credits, tasks, celery, worker,
          payments, webhook_events, reqs, outcome, ledger>>

\* the state of the token service
service == <<users, refresh_tokens, user_sessions, security_logs, next_token_id,
             next_session_id, now, autoflush, token_blacklist, job, calls, procs, ret,
             rotations, chain, failed_logins>>

\* the state of the cookie manager and of the access-token codec
codec == <<hour, issued, verified, access_tokens, decoded>>

\* the state of task submission, the image worker and credit purchase
billing == <<credits, tasks, celery, worker, payments, webhook_events, reqs, outcome, ledger>>

\* the state beside the tables and the request slots of the token service
aside == <<codec, revoked_families, billing>>

db == <<users, refresh_tokens, user_sessions, security_logs, next_token_id,
        next_session_id, token_blacklist>>

\* the accounts of the users table
Users == DOMAIN users

\* ---- pure helpers -------------------------------------------------------

\* hash_token: SHA-256 of the secret, injective on the modelled secrets and
\* never equal to a secret.
hash_token(secret) == 1000 + 7 * secret

\* create_device_fingerprint: SHA-256 of "user_agent:ip_address".
create_device_fingerprint(user_agent, ip_address) == 100 * user_agent + ip_address

Fingerprints == {create_device_fingerprint(a, i) : a \in UserAgents, i \in IpAddresses}

\* pwd_context.hash / pwd_context.verify: a password verifies against its own
\* hash only, and no hash equals a password
get_password_hash(password) == 5000 + 3 * password

verify_password(plain_password, hashed_password) ==
  get_password_hash(plain_password) = hashed_password

\* UserService.get_user_by_email: the row with that email, or None
get_user_by_email(email) ==
  LET match == {u \in DOMAIN users : users[u].email = email}
  IN IF match = {} THEN NULL ELSE CHOOSE u \in match : TRUE

\* UserService.authenticate_user
authenticate_user(email, password) ==
  LET user == get_user_by_email(email)
  IN IF user = NULL THEN NULL
     ELSE IF ~verify_password(password, users[user].hashed_password) THEN NULL
     ELSE user

\* user.max_concurrent_sessions or 5
max_sessions(u) ==
  IF users[u].max_concurrent_sessions = NULL THEN DefaultMaxSessions
  ELSE users[u].max_concurrent_sessions

\* TokenService.get_active_user_sessions, over given tables and clock
ActiveSessionsIn(S, t, u) ==
  {s \in DOMAIN S : S[s].user_id = u /\ S[s].is_active /\ S[s].expires_at > t}

get_active_user_sessions(u) == ActiveSessionsIn(user_sessions, now, u)

\* max in place of min
NewestOf(ss) == {s \in ss : \A o \in ss : user_sessions[s].created_at >= user_sessions[o].created_at}

\* min(active_sessions, key=lambda s: s.created_at): the candidates when the
\* result order of the SELECT is not fixed
OldestOf(ss) == {s \in ss : \A o \in ss : user_sessions[s].created_at <= user_sessions[o].created_at}

\* the lookup without its is_active filter
FindUnexpired(secret) ==
  {t \in DOMAIN refresh_tokens :
      /\ refresh_tokens[t].token_hash = hash_token(secret)
      /\ refresh_tokens[t].expires_at > now}

\* refresh_access_token's lookup: hash, active, unexpired
FindActiveUnexpired(secret) ==
  {t \in DOMAIN refresh_tokens :
      /\ refresh_tokens[t].token_hash = hash_token(secret)
      /\ refresh_tokens[t].is_active
      /\ refresh_tokens[t].expires_at > now}

\* revoke_refresh_token's lookup: hash, active
FindActive(secret) ==
  {t \in DOMAIN refresh_tokens :
      /\ refresh_tokens[t].token_hash = hash_token(secret)
      /\ refresh_tokens[t].is_active}

\* revoke_token_family's lookup
ActiveFamilyTokens(fam) ==
  {t \in DOMAIN refresh_tokens : refresh_tokens[t].family_id = fam /\ refresh_tokens[t].is_active}

\* query(UserSession).filter(refresh_token_id == t).first()
SessionsOfToken(t) == {s \in DOMAIN user_sessions : user_sessions[s].refresh_token_id = t}

\* security_logs.id of the next row: an integer primary key, distinct from
\* the ids of the rows in the table
NextLogId ==
  IF security_logs = {} THEN 1
  ELSE 1 + (CHOOSE n \in {e.id : e \in security_logs} :
              \A e \in security_logs : e.id <= n)

\* log_security_event: the row added to the unit of work; id and created_at
\* are set by the store when the row is inserted
LogEntry(event_type, event_category, severity, user_id, ip_address, success, created_at) ==
  [id |-> NextLogId, event_type |-> event_type, event_category |-> event_category,
   severity |-> severity, user_id |-> user_id, ip_address |-> ip_address,
   success |-> success, created_at |-> created_at]

\* writes of terminate_session on a session row that the handler holds as active
TerminatedRow(row, reason, t) ==
  [row EXCEPT !.is_active = FALSE, !.terminated_at = t, !.termination_reason = reason]

\* the flag flipped in place of cleared
ToggleTokens(T, ts) ==
  [t \in DOMAIN T |-> IF t \in ts THEN [T[t] EXCEPT !.is_active = ~@] ELSE T[t]]

\* token table after "refresh_token.is_active = False" for every id in ts
DeactivateTokens(T, ts) ==
  [t \in DOMAIN T |-> IF t \in ts THEN [T[t] EXCEPT !.is_active = FALSE] ELSE T[t]]

\* session table after terminate_session for every id in ss
TerminateSessions(S, ss, reason, t) ==
  [s \in DOMAIN S |-> IF s \in ss THEN TerminatedRow(S[s], reason, t) ELSE S[s]]

\* the flushed statements outlive the transaction
ClosedKeepingFlushed(committed, flushed) == flushed

\* a table after db.close() without db.commit() (get_db as tests/conftest.py
\* overrides it): the rows the request had added to its unit of work and the
\* statements it had flushed are dropped
ClosedWithoutCommit(committed, flushed) == committed

\* ---- request slots ------------------------------------------------------
IdleProc ==
  [pc |-> "idle", op |-> "none", user |-> NULL, ua |-> NULL, ip |-> NULL,
   secret |-> NULL, remember |-> FALSE, sid |-> NULL, rtid |-> NULL,
   reason |-> "none", tok |-> NULL, fam |-> NULL, exp |-> NoTime, tfp |-> NULL,
   snap |-> {}, out |-> NULL, cached |-> FALSE, replay |-> FALSE, solo |-> FALSE,
   fresh |-> FALSE, full |-> FALSE, foreign |-> FALSE, all |-> {},
   pend |-> {}, logged |-> FALSE]

\* ---- routes: what the caller sees ----------------------------------------

\* HTTPException(status_code, detail), or the status of a normal return
HttpResponse(status, detail) == [status |-> status, detail |-> detail]

\* no route answered
NoResponse == HttpResponse(0, "none")

\* the route that answers None like an exception
RefreshResponseAsError(result) ==
  IF result = "ok" THEN HttpResponse(200, "token_data")
  ELSE HttpResponse(500, "Token refresh failed")

\* POST /auth/refresh, routes/auth.py lines 285-315: the pair as it is, 401 for
\* None whatever made refresh_access_token return it, and
\* handle_service_error's 500 for an exception
RefreshResponse(result) ==
  IF result = "ok" THEN HttpResponse(200, "token_data")
  ELSE IF result = "unauthorized" THEN HttpResponse(401, "Invalid or expired refresh token")
  ELSE HttpResponse(500, "Token refresh failed")

\* POST /auth/login, routes/auth.py lines 155-188, once the caller is
\* authenticated
LoginResponse(result) ==
  IF result = "ok" THEN HttpResponse(200, "token_data")
  ELSE HttpResponse(500, "Authentication failed")

\* the answer of the route that called the handler op; the other handlers are
\* called as service methods
Response(op, result) ==
  IF op = "refresh" THEN RefreshResponse(result)
  ELSE IF op = "login" THEN LoginResponse(result)
  ELSE NoResponse

\* no handler returned in the latest step
NoRet ==
  [op |-> "none", result |-> "none", out |-> NULL, secret |-> NULL, tok |-> NULL,
   sid |-> NULL, fam |-> NULL, reason |-> "none", replay |-> FALSE, solo |-> FALSE,
   fresh |-> FALSE, full |-> FALSE, foreign |-> FALSE, user |-> NULL, all |-> {},
   http |-> NoResponse]

\* the return of the handler in slot record me
Returned(me, result, out) ==
  [op |-> me.op, result |-> result, out |-> out, secret |-> me.secret, tok |-> me.tok,
   sid |-> me.sid, fam |-> me.fam, reason |-> me.reason, replay |-> me.replay,
   solo |-> me.solo, fresh |-> me.fresh, full |-> me.full, foreign |-> me.foreign,
   user |-> me.user, all |-> me.all, http |-> Response(me.op, result)]

\* the pair most recently handed out by create_token_pair, while nothing ran since
JustIssued(secret, ua, ip) ==
  /\ ret.op = "login" /\ ret.result = "ok" /\ ret.out = secret
  /\ refresh_tokens[ret.out].device_fingerprint = create_device_fingerprint(ua, ip)

\* terminate_session(sid) returned True in the latest step
JustTerminated(sid) == ret.op = "terminate" /\ ret.result = "true" /\ ret.sid = sid

\* revoke_refresh_token(secret) returned True in the latest step
JustRevoked(secret) == ret.op = "revoke" /\ ret.result = "true" /\ ret.secret = secret

Free(p) == procs[p].pc = "idle"

\* slots are interchangeable: a new request takes the lowest free slot
LowestFree(p) == Free(p) /\ \A q \in Procs : q < p => ~Free(q)

OthersIdle(p) == \A q \in Procs \ {p} : Free(q)

\* a request that starts, and the passing of time, end the solitude of every
\* request in flight
Disturb(P, p) == [q \in Procs |-> IF q = p THEN P[q] ELSE [P[q] EXCEPT !.solo = FALSE]]

\* slot p starts a handler with locals rec
Start(p, rec) ==
  /\ calls < MaxCalls
  /\ calls' = calls + 1
  /\ procs' = Disturb([procs EXCEPT ![p] = [rec EXCEPT !.solo = OthersIdle(p)]], p)
  /\ ret' = NoRet

\* slot p starts a handler that returns in its first step
StartAndReturn(p, rec, result, out) ==
  /\ calls < MaxCalls
  /\ calls' = calls + 1
  /\ procs' = Disturb(procs, p)
  /\ ret' = Returned([rec EXCEPT !.solo = OthersIdle(p)], result, out)

\* slot p moves on inside its handler
Goto(p, rec) == procs' = [procs EXCEPT ![p] = rec] /\ ret' = NoRet

\* the handler in slot p returns
Finish(p, result, out) ==
  /\ procs' = [procs EXCEPT ![p] = IdleProc]
  /\ ret' = Returned(procs[p], result, out)

\* handlers between their first SELECT and the commit that INSERTs a refresh token
PendingInserts ==
  Cardinality({q \in Procs : procs[q].pc \in {"login_evict", "login_insert", "refresh_commit"}})

RowBudget == next_token_id + PendingInserts <= MaxRows

\* ---- POST /auth/login: the caller is turned away -------------------------

\* the answer that tells an unknown account from a wrong password
LoginRejectionNaming(email, password) ==
  IF get_user_by_email(email) = NULL THEN HttpResponse(401, "Unknown account")
  ELSE HttpResponse(401, "Incorrect password")

\* routes/auth.py lines 132-136: the HTTPException raised when
\* authenticate_user returns None
LoginRejection(email, password) == HttpResponse(401, "Incorrect email or password")

\* routes/auth.py lines 149-153
InactiveRejection == HttpResponse(401, "Account is inactive")

\* routes/auth.py lines 119-153: authenticate_user fails, or the account is
\* inactive.  The route adds a failed_login or inactive_user_login event to the
\* unit of work and raises HTTPException without db.commit(); the request's
\* Session is closed.
Login_Rejected(email, password, ip) ==
  /\ LET user == authenticate_user(email, password)
     IN IF user = NULL
        THEN /\ failed_logins[ip] < MaxFailedLogins
             /\ failed_logins' = [failed_logins EXCEPT ![ip] = @ + 1]
             /\ security_logs' = ClosedWithoutCommit(security_logs, security_logs \cup
                   {LogEntry("failed_login", "auth", "medium", NULL, ip, FALSE, now)})
             /\ ret' = [NoRet EXCEPT !.op = "login", !.result = "rejected",
                                     !.reason = "failed_login",
                                     !.user = get_user_by_email(email),
                                     !.http = LoginRejection(email, password)]
        ELSE /\ ~users[user].is_active
             /\ security_logs' = ClosedWithoutCommit(security_logs, security_logs \cup
                   {LogEntry("inactive_user_login", "auth", "medium", user, ip, FALSE, now)})
             /\ ret' = [NoRet EXCEPT !.op = "login", !.result = "rejected",
                                     !.reason = "inactive_user_login", !.user = user,
                                     !.http = InactiveRejection]
             /\ UNCHANGED failed_logins
  /\ procs' = [q \in Procs |-> [procs[q] EXCEPT !.solo = FALSE]]
  /\ UNCHANGED <<users, refresh_tokens, user_sessions, next_token_id, next_session_id, token_blacklist, now, autoflush, job, calls, rotations, chain, aside>>

\* ---- monitor_suspicious_activity (hourly task, its own session) ----------

\* security_tasks.py lines 41-49: the failed_login rows of the last hour from
\* address ip; time is counted in days
RecentFailedLogins(ip) ==
  {e \in security_logs :
     /\ e.event_type = "failed_login"
     /\ e.created_at >= now - (MonitorHours \div 24)
     /\ e.success = FALSE
     /\ e.ip_address = ip}

\* lines 50-52: GROUP BY ip_address HAVING count >= threshold
SuspiciousIps ==
  {ip \in IpAddresses : Cardinality(RecentFailedLogins(ip)) >= SUSPICIOUS_ACTIVITY_THRESHOLD}

\* lines 35-75: the scan reads the log, reports the flagged addresses and
\* closes its session; it writes nothing
MonitorSuspiciousActivity ==
  /\ ret' = [NoRet EXCEPT !.op = "monitor", !.result = "ok", !.all = SuspiciousIps,
                          !.out = Cardinality(SuspiciousIps)]
  /\ procs' = [q \in Procs |-> [procs[q] EXCEPT !.solo = FALSE]]
  /\ UNCHANGED <<db, now, autoflush, job, calls, rotations, chain, failed_logins, aside>>

\* ---- create_token_pair (POST /auth/login) -------------------------------

\* lines 40-46: fingerprint, SELECT of the active sessions, choice of the oldest
CreateTokenPair_Read(p, u, ua, ip, remember) ==
  /\ LowestFree(p)
  /\ users[u].is_active
  /\ RowBudget
  /\ LET active == get_active_user_sessions(u)
         base == [IdleProc EXCEPT !.op = "login", !.user = u, !.ua = ua, !.ip = ip,
                                  !.remember = remember,
                                  !.full = (Cardinality(active) = max_sessions(u))]
     IN IF Cardinality(active) >= max_sessions(u)
        THEN \E oldest \in OldestOf(active) :
               Start(p, [base EXCEPT !.pc = "login_evict", !.sid = oldest,
                                     !.rtid = user_sessions[oldest].refresh_token_id])
        ELSE Start(p, [base EXCEPT !.pc = "login_insert"])
  /\ UNCHANGED <<db, now, autoflush, job, rotations, chain, failed_logins, aside>>

\* line 47: terminate_session(oldest.session_id, "session_limit_exceeded") and
\* its db.commit().  The SELECT by session_id returns the object the SELECT of
\* line 42 loaded, with the attributes loaded then; it returns None, and nothing
\* is ended, when the row is gone.
CreateTokenPair_Evict(p) ==
  /\ procs[p].pc = "login_evict"
  /\ LET sid == procs[p].sid
         rt == procs[p].rtid
     IN IF sid \notin DOMAIN user_sessions
        THEN UNCHANGED <<user_sessions, refresh_tokens>>
        ELSE /\ user_sessions' = TerminateSessions(user_sessions, {sid}, "session_limit_exceeded", now)
             /\ refresh_tokens' = DeactivateTokens(refresh_tokens, {rt})
  /\ Goto(p, [procs[p] EXCEPT !.pc = "login_insert"])
  /\ UNCHANGED <<users, security_logs, next_token_id, next_session_id, now, autoflush, token_blacklist, job, calls, rotations, chain, failed_logins, aside>>

\* lines 51-65: the refresh token row of a login, family_id fresh
IssuedRefreshTokenRecord(id, me, t) ==
  [token_hash |-> hash_token(id), user_id |-> me.user,
   device_fingerprint |-> create_device_fingerprint(me.ua, me.ip), family_id |-> id,
   is_active |-> TRUE, last_used_at |-> t,
   expires_at |-> t + (IF me.remember THEN RememberDays ELSE RefreshDays)]

\* lines 49-107: INSERT refresh token and session, user update, login_success
\* event, db.commit()
CreateTokenPair_Commit(p) ==
  /\ procs[p].pc = "login_insert"
  /\ LET me == procs[p]
         id == next_token_id
         sid == next_session_id
         fp == create_device_fingerprint(me.ua, me.ip)
         expires_at == now + (IF me.remember THEN RememberDays ELSE RefreshDays)
     IN /\ refresh_tokens' = refresh_tokens @@ (id :> IssuedRefreshTokenRecord(id, me, now))
        /\ user_sessions' = user_sessions @@ (sid :>
              [user_id |-> me.user, refresh_token_id |-> id, ip_address |-> me.ip,
               device_fingerprint |-> fp, is_active |-> TRUE, created_at |-> now,
               last_activity_at |-> now, expires_at |-> expires_at,
               terminated_at |-> NoTime, termination_reason |-> "none"])
        /\ users' = [users EXCEPT ![me.user].last_login_at = now,
                                  ![me.user].last_login_ip = me.ip,
                                  ![me.user].failed_login_attempts = 0]
        /\ security_logs' = security_logs \cup {LogEntry("login_success", "auth", "low", me.user, me.ip, TRUE, now)}
        /\ next_token_id' = id + 1
        /\ next_session_id' = sid + 1
        /\ chain' = [chain EXCEPT ![id] = sid]
        /\ procs' = [procs EXCEPT ![p] = IdleProc]
        /\ ret' = [Returned(me, "ok", id) EXCEPT !.tok = id]
  /\ UNCHANGED <<now, autoflush, token_blacklist, job, calls, rotations, failed_logins, aside>>

\* ---- refresh_access_token (POST /auth/refresh) --------------------------

\* the owner check left out
OwnerUnchecked(u) == TRUE

\* lines 150-152: "if not user or not user.is_active: return None", negated
OwnerMayRefresh(u) == u \in DOMAIN users /\ users[u].is_active

\* lines 138-148: the invalid_refresh_token event that the miss adds to the
\* unit of work
InvalidTokenEvent(ip) ==
  LogEntry("invalid_refresh_token", "suspicious", "medium", NULL, ip, TRUE, now)

\* lines 127-172: lookup by hash, owner check, fingerprint comparison.  On a
\* miss the handler adds the invalid_refresh_token event and returns None
\* without db.commit(); the route raises 401 and the request's Session is
\* closed.
RefreshAccessToken_Lookup(p, secret, ua, ip, fp) ==
  /\ LowestFree(p)
  /\ LET found == FindActiveUnexpired(secret)
         base == [IdleProc EXCEPT !.op = "refresh", !.secret = secret, !.ua = ua, !.ip = ip,
                                  !.replay = (rotations[secret] > 0),
                                  !.fresh = /\ JustIssued(secret, ua, ip)
                                            /\ fp \in {NULL, create_device_fingerprint(ua, ip)}]
     IN IF found = {}
        THEN /\ StartAndReturn(p, base, "unauthorized", NULL)
             /\ security_logs' = ClosedWithoutCommit(security_logs,
                                    security_logs \cup {InvalidTokenEvent(ip)})
        ELSE /\ UNCHANGED security_logs
             /\ \E t \in found :
               LET row == refresh_tokens[t]
                   held == [base EXCEPT !.tok = t, !.user = row.user_id,
                                        !.fam = row.family_id, !.exp = row.expires_at,
                                        !.tfp = row.device_fingerprint,
                                        !.foreign = (create_device_fingerprint(ua, ip)
                                                       # row.device_fingerprint)]
               IN IF ~OwnerMayRefresh(row.user_id)
                  THEN StartAndReturn(p, held, "unauthorized", NULL)
                  ELSE IF fp # NULL /\ fp # create_device_fingerprint(ua, ip)
                       THEN Start(p, [held EXCEPT !.pc = "family_read",
                                                  !.reason = "security_breach"])
                       ELSE /\ RowBudget
                            /\ Start(p, [held EXCEPT !.pc = "refresh_commit"])
  /\ UNCHANGED <<users, refresh_tokens, user_sessions, next_token_id, next_session_id,
                 token_blacklist, now, autoflush, job, rotations, chain, failed_logins, aside>>

\* the successor row with a lifetime of its own
NewRefreshTokenRecordOwnExpiry(id, old, t) ==
  [token_hash |-> hash_token(id), user_id |-> old.user,
   device_fingerprint |-> old.tfp, family_id |-> old.fam,
   is_active |-> TRUE, last_used_at |-> t, expires_at |-> t + RefreshDays]

\* lines 186-196: the successor row, built from the presented row as the
\* lookup loaded it
NewRefreshTokenRecord(id, old, t) ==
  [token_hash |-> hash_token(id), user_id |-> old.user,
   device_fingerprint |-> old.tfp, family_id |-> old.fam,
   is_active |-> TRUE, last_used_at |-> t, expires_at |-> old.exp]

\* new_refresh_token_record.id at line 205: the INSERT has run only if the
\* SELECT of line 199 flushed the unit of work, otherwise the id is still None
NewTokenIdAtRepoint(flushed, id) == IF flushed THEN id ELSE NULL

\* the session rows left as they are
KeepSessions(S, ss, id, t, ip) == S

\* lines 204-207: the session that references the presented row is repointed
\* and its last activity and address are updated
RepointSessions(S, ss, id, t, ip) ==
  [s \in DOMAIN S |->
     IF s \in ss
     THEN [S[s] EXCEPT !.refresh_token_id = id, !.last_activity_at = t, !.ip_address = ip]
     ELSE S[s]]

\* lines 174-222: deactivate the presented row, INSERT its successor, SELECT
\* the session that references the presented row and repoint it, token_refresh
\* event, db.commit().  The SELECT of line 199 is taken with the commit: with
\* autoflush it runs behind the flushed UPDATE of the presented row, whose row
\* lock is held until the commit; without autoflush no statement separates it
\* from the commit.
RefreshAccessToken_Commit(p) ==
  /\ procs[p].pc = "refresh_commit"
  /\ LET me == procs[p]
         id == next_token_id
         ss == SessionsOfToken(me.tok)
     IN IF me.tok \notin DOMAIN refresh_tokens
        THEN \* the presented row was deleted meanwhile: the flush raises, nothing is written
             /\ Finish(p, "error", NULL)
             /\ UNCHANGED <<db, rotations, chain>>
        ELSE /\ refresh_tokens' = DeactivateTokens(refresh_tokens, {me.tok}) @@
                                     (id :> NewRefreshTokenRecord(id, me, now))
             /\ user_sessions' = RepointSessions(user_sessions, ss,
                                                 NewTokenIdAtRepoint(autoflush, id), now, me.ip)
             /\ security_logs' = security_logs \cup {LogEntry("token_refresh", "auth", "low", me.user, me.ip, TRUE, now)}
             /\ next_token_id' = id + 1
             /\ rotations' = [rotations EXCEPT ![me.secret] = @ + 1]
             /\ chain' = [chain EXCEPT ![id] = chain[me.tok]]
             /\ procs' = [procs EXCEPT ![p] = IdleProc]
             /\ ret' = [Returned(me, "ok", id) EXCEPT
                          !.sid = IF ss = {} THEN NULL ELSE CHOOSE s \in ss : TRUE]
             /\ UNCHANGED <<users, next_session_id>>
  /\ UNCHANGED <<now, autoflush, token_blacklist, job, calls, failed_logins, aside>>

\* ---- revoke_token_family ------------------------------------------------

\* revoke_token_family called directly (administrative action), up to its
\* SELECT of the family's active tokens (lines 259-264).  The caller names a
\* family id that generate_token_family_id has handed out, or one that no
\* family has (NULL): an id that is yet to be generated cannot be named.
RevokeTokenFamily_Call(p, fam, reason) ==
  /\ LowestFree(p)
  /\ fam < next_token_id
  /\ Start(p, [IdleProc EXCEPT !.op = "revoke_family", !.pc = "family_commit",
                               !.fam = fam, !.reason = reason,
                               !.snap = ActiveFamilyTokens(fam),
                               !.out = Cardinality(ActiveFamilyTokens(fam))])
  /\ UNCHANGED <<db, now, autoflush, job, rotations, chain, failed_logins, aside>>

\* lines 259-264 reached from refresh_access_token line 171: SELECT of the
\* family's active tokens
RevokeTokenFamily_Read(p) ==
  /\ procs[p].pc = "family_read"
  /\ Goto(p, [procs[p] EXCEPT !.pc = "family_commit",
                              !.snap = ActiveFamilyTokens(procs[p].fam)])
  /\ UNCHANGED <<db, now, autoflush, job, calls, rotations, chain, failed_logins, aside>>

\* the theft response that commits without its event
UnloggedTheft(me) == {}

\* lines 158-169: the device_fingerprint_mismatch event that
\* refresh_access_token adds to the unit of work before it calls
\* revoke_token_family; it is written by the first db.commit() that follows
TheftEvent(me) ==
  IF me.op = "refresh" /\ ~me.logged
  THEN {LogEntry("device_fingerprint_mismatch", "suspicious", "high", me.user, me.ip, TRUE, now)}
  ELSE {}

\* lines 266-277: one turn of the loop over the token rows of the SELECT, in
\* the order the store returned them.  The row goes inactive in the unit of
\* work (pend); the session that references it is looked up, and if it is
\* active terminate_session ends it and commits the unit of work.  After the
\* last turn the db.commit() of line 276 writes what is still pending.  A row
\* of the SELECT that was deleted meanwhile makes the flush raise: what is
\* pending is lost, what earlier turns committed stays.
RevokeTokenFamily_Commit(p) ==
  /\ procs[p].pc = "family_commit"
  /\ LET me == procs[p]
     IN IF ~((me.snap \cup me.pend) \subseteq DOMAIN refresh_tokens)
        THEN /\ Finish(p, "error", NULL)
             /\ UNCHANGED <<refresh_tokens, user_sessions, security_logs, revoked_families>>
        ELSE \E t \in IF me.snap = {} THEN {NULL} ELSE me.snap :
               LET ss == IF t = NULL THEN {}
                         ELSE {s \in SessionsOfToken(t) : user_sessions[s].is_active}
                   rest == me.snap \ {t}
                   mine == (me.pend \cup {t}) \ {NULL}
                   commits == ss # {} \/ rest = {}
               IN /\ IF commits
                     THEN /\ refresh_tokens' = DeactivateTokens(refresh_tokens, mine)
                          /\ user_sessions' = TerminateSessions(user_sessions, ss, me.reason, now)
                          /\ security_logs' = security_logs \cup TheftEvent(me)
                     ELSE UNCHANGED <<refresh_tokens, user_sessions, security_logs>>
                  /\ IF rest # {}
                     THEN Goto(p, [me EXCEPT !.snap = rest,
                                             !.pend = IF commits THEN {} ELSE mine,
                                             !.logged = me.logged \/ commits])
                     ELSE IF me.op = "refresh" THEN Finish(p, "unauthorized", NULL)
                          ELSE Finish(p, "count", me.out)
                  /\ revoked_families' = IF rest = {} THEN revoked_families \cup {me.fam}
                                         ELSE revoked_families
  /\ UNCHANGED <<users, next_token_id, next_session_id, now, autoflush, token_blacklist, job, calls, rotations, chain, failed_logins, codec, billing>>

\* ---- revoke_refresh_token (logout) -------------------------------------

\* lines 233-240: lookup by hash among the active rows
RevokeRefreshToken_Lookup(p, secret, reason) ==
  /\ LowestFree(p)
  /\ LET found == FindActive(secret)
         base == [IdleProc EXCEPT !.op = "revoke", !.secret = secret, !.reason = reason,
                                  !.fresh = JustRevoked(secret)]
     IN IF found = {}
        THEN StartAndReturn(p, base, "false", NULL)
        ELSE \E t \in found : Start(p, [base EXCEPT !.pc = "revoke_commit", !.tok = t])
  /\ UNCHANGED <<db, now, autoflush, job, rotations, chain, failed_logins, aside>>

\* lines 242-253: the row goes inactive, the session that references it is
\* looked up and terminate_session ends it if it is active
RevokeRefreshToken_Commit(p) ==
  /\ procs[p].pc = "revoke_commit"
  /\ LET me == procs[p]
         ss == {s \in SessionsOfToken(me.tok) : user_sessions[s].is_active}
     IN IF me.tok \notin DOMAIN refresh_tokens
        THEN \* the row was deleted meanwhile: the flush raises
             /\ Finish(p, "error", NULL)
             /\ UNCHANGED <<refresh_tokens, user_sessions>>
        ELSE /\ refresh_tokens' = DeactivateTokens(refresh_tokens, {me.tok})
             /\ user_sessions' = TerminateSessions(user_sessions, ss, me.reason, now)
             /\ procs' = [procs EXCEPT ![p] = IdleProc]
             /\ ret' = [Returned(me, "true", NULL) EXCEPT
                          !.sid = IF ss = {} THEN NULL ELSE CHOOSE s \in ss : TRUE]
  /\ UNCHANGED <<users, security_logs, next_token_id, next_session_id, now, autoflush, token_blacklist, job, calls, rotations, chain, failed_logins, aside>>

\* ---- terminate_session --------------------------------------------------

\* "if session:" alone
SessionExists(sid) == sid \in DOMAIN user_sessions

\* line 295: "if session and session.is_active" on the row just loaded
SessionIsLive(sid) == sid \in DOMAIN user_sessions /\ user_sessions[sid].is_active

\* lines 291-295: SELECT by session_id and the test of is_active
TerminateSession_Read(p, sid, reason) ==
  /\ LowestFree(p)
  /\ LET base == [IdleProc EXCEPT !.op = "terminate", !.sid = sid, !.reason = reason,
                                  !.fresh = JustTerminated(sid)]
     IN IF SessionIsLive(sid)
        THEN Start(p, [base EXCEPT !.pc = "terminate_commit",
                                   !.rtid = user_sessions[sid].refresh_token_id])
        ELSE StartAndReturn(p, base, "false", NULL)
  /\ UNCHANGED <<db, now, autoflush, job, rotations, chain, failed_logins, aside>>

\* lines 296-309: the session row is ended, the refresh token it referenced
\* when it was loaded is looked up and deactivated, db.commit()
TerminateSession_Commit(p) ==
  /\ procs[p].pc = "terminate_commit"
  /\ LET me == procs[p]
     IN IF me.sid \notin DOMAIN user_sessions
        THEN \* the row was deleted meanwhile: the flush raises
             /\ Finish(p, "error", NULL)
             /\ UNCHANGED <<refresh_tokens, user_sessions>>
        ELSE /\ user_sessions' = TerminateSessions(user_sessions, {me.sid}, me.reason, now)
             /\ refresh_tokens' = DeactivateTokens(refresh_tokens, {me.rtid})
             /\ Finish(p, "true", NULL)
  /\ UNCHANGED <<users, security_logs, next_token_id, next_session_id, now, autoflush, token_blacklist, job, calls, rotations, chain, failed_logins, aside>>

\* ---- terminate_all_user_sessions ----------------------------------------

\* line 315: SELECT of the account's active sessions, each with the refresh
\* token it references at that moment
TerminateAll_Read(p, u, reason) ==
  /\ LowestFree(p)
  /\ LET active == get_active_user_sessions(u)
         base == [IdleProc EXCEPT !.op = "terminate_all", !.user = u, !.reason = reason,
                                  !.out = Cardinality(active), !.all = active]
     IN IF active = {}
        THEN StartAndReturn(p, base, "count", 0)
        ELSE Start(p, [base EXCEPT !.pc = "terminate_all", !.cached = TRUE,
                          !.snap = {<<s, user_sessions[s].refresh_token_id>> : s \in active}])
  /\ UNCHANGED <<db, now, autoflush, job, rotations, chain, failed_logins, aside>>

\* lines 317-318: one turn of the loop, a terminate_session.  Until the first
\* db.commit() of the loop the session objects carry what the SELECT of line
\* 315 loaded, and a row that is gone makes terminate_session return False;
\* the commit expires them, so later turns load each row again, which raises
\* when the row is gone.
TerminateAll_Step(p) ==
  /\ procs[p].pc = "terminate_all"
  /\ LET me == procs[p]
     IN \E pair \in me.snap :
          LET sid == pair[1]
              gone == sid \notin DOMAIN user_sessions
              rt == IF me.cached THEN pair[2] ELSE user_sessions[sid].refresh_token_id
              rest == me.snap \ {pair}
              writes == ~gone /\ (me.cached \/ user_sessions[sid].is_active)
          IN IF gone /\ ~me.cached
             THEN /\ Finish(p, "error", NULL)
                  /\ UNCHANGED <<refresh_tokens, user_sessions>>
             ELSE /\ IF writes
                     THEN /\ user_sessions' = TerminateSessions(user_sessions, {sid}, me.reason, now)
                          /\ refresh_tokens' = DeactivateTokens(refresh_tokens, {rt})
                     ELSE UNCHANGED <<refresh_tokens, user_sessions>>
                  /\ IF rest = {}
                     THEN Finish(p, "count", me.out)
                     ELSE Goto(p, [me EXCEPT !.snap = rest, !.cached = me.cached /\ ~writes])
  /\ UNCHANGED <<users, security_logs, next_token_id, next_session_id, now, autoflush, token_blacklist, job, calls, rotations, chain, failed_logins, aside>>

\* ---- blacklist_token ---------------------------------------------------

\* utils.auth.blacklist_token: INSERT of the row and db.commit(); jti is
\* unique, a second row for the same jti raises and nothing is written
BlacklistToken(p, jti, expires_at) ==
  /\ LowestFree(p)
  /\ LET base == [IdleProc EXCEPT !.op = "blacklist"]
     IN IF jti \in DOMAIN token_blacklist
        THEN /\ StartAndReturn(p, base, "error", NULL)
             /\ UNCHANGED token_blacklist
        ELSE /\ StartAndReturn(p, base, "ok", jti)
             /\ token_blacklist' = token_blacklist @@ (jti :> [expires_at |-> expires_at])
  /\ UNCHANGED <<users, refresh_tokens, user_sessions, security_logs, next_token_id, next_session_id, now, autoflush, job, rotations, chain, failed_logins, aside>>

\* ---- a request that dies ------------------------------------------------

\* the refresh_tokens table as the open transaction of the handler with
\* locals me has written it: the INSERT flushed at line 67, or the UPDATE and
\* INSERT flushed by the SELECT of line 199 under autoflush
FlushedTokens(me) ==
  IF me.pc = "login_insert"
  THEN refresh_tokens @@ (next_token_id :> IssuedRefreshTokenRecord(next_token_id, me, now))
  ELSE IF me.pc = "refresh_commit" /\ autoflush /\ me.tok \in DOMAIN refresh_tokens
       THEN DeactivateTokens(refresh_tokens, {me.tok}) @@
              (next_token_id :> NewRefreshTokenRecord(next_token_id, me, now))
       ELSE refresh_tokens

\* an exception from outside the handler's logic (store error, crash of the
\* worker) ends the handler in slot p where it stands: the route turns it into
\* an error response and the request's Session is closed without db.commit().
\* The handler did not return: ret records the abort and which handler it hit.
Crash(p) ==
  /\ ~Free(p)
  /\ refresh_tokens' = ClosedWithoutCommit(refresh_tokens, FlushedTokens(procs[p]))
  /\ procs' = [procs EXCEPT ![p] = IdleProc]
  /\ ret' = [Returned(procs[p], procs[p].op, NULL) EXCEPT
               !.op = "crashed", !.http = Response(procs[p].op, "error")]
  /\ UNCHANGED <<users, user_sessions, security_logs, next_token_id, next_session_id, now, autoflush, token_blacklist, job, calls, rotations, chain, failed_logins, aside>>

\* the INSERT of the security_logs row fails in the flush of db.commit()
\* (token_service.py line 107 or 220).  log_security_event has only added the
\* row to the unit of work (lines 379-380) and neither handler catches the
\* exception: the transaction is rolled back as a whole and the route answers
\* with handle_service_error's 500.
LogInsertFails(p) ==
  /\ procs[p].pc \in {"login_insert", "refresh_commit"}
  /\ refresh_tokens' = ClosedWithoutCommit(refresh_tokens, FlushedTokens(procs[p]))
  /\ procs' = [procs EXCEPT ![p] = IdleProc]
  /\ ret' = [Returned(procs[p], procs[p].op, NULL) EXCEPT
               !.op = "log_failed", !.http = Response(procs[p].op, "error")]
  /\ UNCHANGED <<users, user_sessions, security_logs, next_token_id, next_session_id, now, autoflush, token_blacklist, job, calls, rotations, chain, failed_logins, aside>>

\* ---- CleanupService.run_full_cleanup (periodic job, its own session) ------

\* rows without the keys in gone
Without(T, gone) == [k \in DOMAIN T \ gone |-> T[k]]

\* what a sub-step of the job reports
JobRet(op, result) == [NoRet EXCEPT !.op = op, !.result = result]

\* the job's step ends the solitude of every request in flight
JobStep(op, result, next) ==
  /\ procs' = [q \in Procs |-> [procs[q] EXCEPT !.solo = FALSE]]
  /\ ret' = JobRet(op, result)
  /\ job' = next

\* cleanup_expired_tokens: DELETE the expired blacklist rows, the expired
\* refresh tokens, then the expired sessions, deactivate the refresh tokens and
\* sessions unused for InactiveDays, commit.  user_sessions.refresh_token_id
\* is a foreign key without ON DELETE: where the store enforces it, the DELETE
\* of a refresh token that a session row references raises, the job rolls
\* back and re-raises; run_full_cleanup lets the exception leave its try
\* block, so the sub-steps after it are not called.
CleanupExpiredTokens ==
  /\ job = "idle"
  /\ LET expiredTokens == {t \in DOMAIN refresh_tokens : refresh_tokens[t].expires_at <= now}
         expiredSessions == {s \in DOMAIN user_sessions : user_sessions[s].expires_at <= now}
         expiredBlacklist == {j \in DOMAIN token_blacklist : token_blacklist[j].expires_at <= now}
         referenced == {t \in expiredTokens : SessionsOfToken(t) # {}}
         keptTokens == Without(refresh_tokens, expiredTokens)
         keptSessions == Without(user_sessions, expiredSessions)
         threshold == now - InactiveDays
     IN \/ /\ token_blacklist' = Without(token_blacklist, expiredBlacklist)
           /\ refresh_tokens' =
                [t \in DOMAIN keptTokens |->
                   IF keptTokens[t].is_active /\ keptTokens[t].last_used_at <= threshold
                   THEN [keptTokens[t] EXCEPT !.is_active = FALSE] ELSE keptTokens[t]]
           /\ user_sessions' =
                [s \in DOMAIN keptSessions |->
                   IF keptSessions[s].is_active /\ keptSessions[s].last_activity_at <= threshold
                   THEN TerminatedRow(keptSessions[s], "inactivity_timeout", now)
                   ELSE keptSessions[s]]
           /\ JobStep("cleanup_tokens", "ok", "logs")
        \/ /\ referenced # {}
           /\ UNCHANGED <<token_blacklist, refresh_tokens, user_sessions>>
           /\ JobStep("cleanup_tokens", "error", "idle")
  /\ UNCHANGED <<users, security_logs, next_token_id, next_session_id, now, autoflush, calls, rotations, chain, failed_logins, aside>>

\* the purge without its filter
AllSecurityLogs(cutoff_date) == security_logs

\* lines 91-93: the filter SecurityLog.created_at <= cutoff_date
OldSecurityLogs(cutoff_date) == {e \in security_logs : e.created_at <= cutoff_date}

\* cleanup_old_security_logs: DELETE the events created at or before the
\* cutoff, commit
CleanupOldSecurityLogs ==
  /\ job = "logs"
  /\ security_logs' = security_logs \ OldSecurityLogs(now - RetentionDays)
  /\ JobStep("cleanup_logs", "ok", "orphans")
  /\ UNCHANGED <<users, refresh_tokens, user_sessions, next_token_id, next_session_id, now, autoflush, token_blacklist, calls, rotations, chain, failed_logins, aside>>

\* coalesce(RefreshToken.is_active, False) == False over the outer join
TokenIsLive(rt) == rt \in DOMAIN refresh_tokens /\ refresh_tokens[rt].is_active

\* cleanup_orphaned_sessions: end the active sessions whose refresh token is
\* inactive or missing, commit
CleanupOrphanedSessions ==
  /\ job = "orphans"
  /\ LET orphaned == {s \in DOMAIN user_sessions :
                        user_sessions[s].is_active /\ ~TokenIsLive(user_sessions[s].refresh_token_id)}
     IN user_sessions' = TerminateSessions(user_sessions, orphaned, "orphaned_cleanup", now)
  /\ JobStep("cleanup_orphans", "ok", "idle")
  /\ UNCHANGED <<users, refresh_tokens, security_logs, next_token_id, next_session_id, now, autoflush, token_blacklist, calls, rotations, chain, failed_logins, aside>>

\* ---- environment --------------------------------------------------------

\* users.is_active (models/user.py line 14) is cleared on the row of account
\* u by an administrator, directly in the store: no route of the application
\* writes the column
AccountDeactivated(u) ==
  /\ users[u].is_active
  /\ users' = [users EXCEPT ![u].is_active = FALSE]
  /\ procs' = [q \in Procs |-> [procs[q] EXCEPT !.solo = FALSE]]
  /\ ret' = NoRet
  /\ UNCHANGED <<refresh_tokens, user_sessions, security_logs, next_token_id, next_session_id, token_blacklist, now, autoflush, job, calls, rotations, chain, failed_logins, aside>>

\* d days pass, up to day horizon; the monitoring window is over
TimePasses(d, horizon) ==
  /\ now + d <= horizon
  /\ now' = now + d
  /\ procs' = [q \in Procs |-> [procs[q] EXCEPT !.solo = FALSE]]
  /\ ret' = NoRet
  /\ failed_logins' = [i \in IpAddresses |-> 0]
  /\ UNCHANGED <<db, autoflush, job, calls, rotations, chain, aside>>

\* time passes
Tick(d) == TimePasses(d, MaxTime)

\* time passes, over the lifetime of the audit log
LongTick(d) == TimePasses(d, AuditHorizon)

\* ---- credits, tasks and the image worker -----------------------------------
\* (routes/tasks.py, services/user_service.py, workers/image_processor.py)

IdleReq ==
  [op |-> "none", pc |-> "idle", user |-> NULL, task |-> NULL, wid |-> NULL,
   payload |-> NULL]

\* nothing returned
NoOutcome == [op |-> "none", status |-> 0, result |-> "none", user |-> NULL, task |-> NULL, order |-> NULL]

Outcome(op, status, result, user, task, order) ==
  [op |-> op, status |-> status, result |-> result, user |-> user, task |-> task, order |-> order]

IdleWorker == [pc |-> "idle", msg |-> NULL, result |-> "none"]

\* process_image_task.delay(task.id, image_path, current_user.id, options)
Message(task_id, user_id, retries) == [task |-> task_id, user |-> user_id, retries |-> retries]

\* the UPDATE without its filter on the balance
AnyActive(user_id) == user_id \in DOMAIN users /\ users[user_id].is_active

\* deduct_credit lines 63-66: the rows the UPDATE matches
HasCreditAndActive(user_id) ==
  user_id \in DOMAIN users /\ credits[user_id] > 0 /\ users[user_id].is_active

\* add_credits lines 85-88: the rows the UPDATE matches
IsActiveUser(user_id) == user_id \in DOMAIN users /\ users[user_id].is_active

\* the balances after add_credits(user_id, n), and whether it returned True
CanAdd(user_id, n) == n > 0 /\ IsActiveUser(user_id)

AfterAdd(user_id, n) ==
  IF CanAdd(user_id, n) THEN [credits EXCEPT ![user_id] = @ + n] ELSE credits

\* POST /tasks, lines 141-169: the balance check on the user row loaded for
\* the request, then TaskService.create_task: INSERT with status queued and
\* db.commit()
CreateTask_Insert(r, u) ==
  /\ reqs[r].pc = "idle"
  /\ users[u].is_active
  /\ IF credits[u] <= 0
     THEN /\ outcome' = Outcome("create_task", 403, "insufficient", u, NULL, NULL)
          /\ UNCHANGED <<tasks, reqs>>
     ELSE /\ Cardinality(DOMAIN tasks) < MaxTasks
          /\ LET id == Cardinality(DOMAIN tasks) + 1
             IN /\ tasks' = tasks @@ (id :> [user_id |-> u, status |-> "queued"])
                /\ reqs' = [reqs EXCEPT ![r] = [IdleReq EXCEPT !.op = "create_task",
                                                               !.pc = "deduct",
                                                               !.user = u, !.task = id]]
          /\ outcome' = NoOutcome
  /\ UNCHANGED <<service, codec, revoked_families, credits, celery, worker, payments,
                 webhook_events, ledger>>

\* POST /tasks, lines 171-187: deduct_credit, one UPDATE ... WHERE credits > 0
\* AND is_active and its commit; on False the route raises 403 and the
\* request ends; on True the job is sent to the broker.  A store error inside
\* deduct_credit is rolled back and reported as False.
CreateTask_Deduct(r, store_error) ==
  /\ reqs[r].pc = "deduct"
  /\ LET me == reqs[r]
         deducted == ~store_error /\ HasCreditAndActive(me.user)
     IN /\ credits' = IF deducted THEN [credits EXCEPT ![me.user] = @ - 1] ELSE credits
        /\ celery' = IF deducted THEN celery \cup {Message(me.task, me.user, 0)} ELSE celery
        /\ ledger' = IF deducted THEN [ledger EXCEPT !.charged = @ \cup {me.task}] ELSE ledger
        /\ outcome' = IF deducted THEN Outcome("create_task", 200, "deducted", me.user, me.task, NULL)
                      ELSE Outcome("create_task", 403, "not_deducted", me.user, me.task, NULL)
  /\ reqs' = [reqs EXCEPT ![r] = IdleReq]
  /\ UNCHANGED <<service, codec, revoked_families, tasks, worker, payments, webhook_events>>

\* update_task_status: the row's status, if the row exists, and db.commit()
WithStatus(task_id, status) ==
  IF task_id \in DOMAIN tasks THEN [tasks EXCEPT ![task_id].status = status] ELSE tasks

\* process_image_task lines 34-37: a worker takes a message, which stays
\* unacknowledged while it runs (acks_late), and sets the task to processing
Worker_Start(msg) ==
  /\ worker.pc = "idle"
  /\ msg \in celery
  /\ tasks' = WithStatus(msg.task, "processing")
  /\ worker' = [pc |-> "processing", msg |-> msg, result |-> "none"]
  /\ outcome' = NoOutcome
  /\ UNCHANGED <<service, codec, revoked_families, credits, celery, payments, webhook_events,
                 reqs, ledger>>

\* lines 39-84: the image is processed and saved, the task set to completed
Worker_Completed ==
  /\ worker.pc = "processing"
  /\ tasks' = WithStatus(worker.msg.task, "completed")
  /\ worker' = [worker EXCEPT !.pc = "acking", !.result = "completed"]
  /\ outcome' = NoOutcome
  /\ UNCHANGED <<service, codec, revoked_families, credits, celery, payments, webhook_events,
                 reqs, ledger>>

\* _mark_task_failed_with_credit_rollback, lines 160-198: the task is set to
\* failed and add_credits(user_id, 1) refunds the credit; when the status
\* update raises, the except branch rolls back and refunds in a session of
\* its own
MarkFailedWithCreditRollback(msg, status_error) ==
  /\ tasks' = IF status_error THEN tasks ELSE WithStatus(msg.task, "failed")
  /\ credits' = AfterAdd(msg.user, 1)
  /\ ledger' = IF CanAdd(msg.user, 1)
               THEN [ledger EXCEPT !.refunded[msg.task] = @ + 1] ELSE ledger

\* lines 86-99: IOError or OSError while the image is opened, processed or
\* saved
Worker_ImageError(status_error) ==
  /\ worker.pc = "processing"
  /\ MarkFailedWithCreditRollback(worker.msg, status_error)
  /\ worker' = [worker EXCEPT !.pc = "acking", !.result = "failed"]
  /\ outcome' = NoOutcome
  /\ UNCHANGED <<service, codec, revoked_families, celery, payments, webhook_events, reqs>>

\* lines 101-148: SQLAlchemyError (limit 3) or another exception (limit 2):
\* rollback; below the limit self.retry sends the message again with
\* retries + 1 and this delivery is acknowledged; at the limit the task is
\* marked failed and refunded
Worker_Retry(limit, status_error) ==
  /\ worker.pc = "processing"
  /\ LET msg == worker.msg
     IN IF msg.retries < limit
        THEN /\ celery' = (celery \ {msg}) \cup {[msg EXCEPT !.retries = @ + 1]}
             /\ worker' = IdleWorker
             /\ UNCHANGED <<tasks, credits, ledger>>
        ELSE /\ MarkFailedWithCreditRollback(msg, status_error)
             /\ worker' = [worker EXCEPT !.pc = "acking", !.result = "failed"]
             /\ UNCHANGED celery
  /\ outcome' = NoOutcome
  /\ UNCHANGED <<service, codec, revoked_families, payments, webhook_events, reqs>>

\* the task function has returned: the message is acknowledged
Worker_Ack ==
  /\ worker.pc = "acking"
  /\ celery' = celery \ {worker.msg}
  /\ worker' = IdleWorker
  /\ outcome' = Outcome("process_image_task", 0, worker.result, worker.msg.user, worker.msg.task, NULL)
  /\ UNCHANGED <<service, codec, revoked_families, credits, tasks, payments, webhook_events,
                 reqs, ledger>>

\* the worker process is lost before it acknowledged the message
\* (reject_on_worker_lost with acks_late): the broker delivers it again
Worker_Lost ==
  /\ worker.pc \in {"processing", "acking"}
  /\ ledger.lost < MaxLost
  /\ worker' = IdleWorker
  /\ ledger' = [ledger EXCEPT !.lost = @ + 1]
  /\ outcome' = NoOutcome
  /\ UNCHANGED <<service, codec, revoked_families, credits, tasks, celery, payments,
                 webhook_events, reqs>>

\* ---- credit purchase and the Razorpay webhook (routes/credits.py) -----------

\* the parsed webhook body: data["event"] and payload.payment.entity, with
\* fresh standing for abs(time.time() - created_at) <= 300
Entity(event, amount, currency, fresh) ==
  [event |-> event, id |-> 1, order_id |-> 1, amount |-> amount, currency |-> currency,
   fresh |-> fresh]

\* the bodies delivered: the capture of order 1 by payment 1, the same with
\* another amount, another currency or an old created_at, and another event
Captured == Entity("payment.captured", 2000, "INR", TRUE)

WebhookPayloads ==
  {Captured, Entity("payment.captured", 1, "INR", TRUE),
   Entity("payment.captured", 2000, "USD", TRUE), Entity("payment.captured", 2000, "INR", FALSE),
   Entity("payment.failed", 2000, "INR", TRUE)}

\* POST /credits/purchase: a Razorpay order for n credits and its payment row
\* (PaymentService.create_payment), status created, no razorpay_payment_id
PurchaseCredits(u, n) ==
  /\ users[u].is_active
  /\ Cardinality(DOMAIN payments) < MaxOrders
  /\ LET order == Cardinality(DOMAIN payments) + 1
     IN /\ payments' = payments @@
             (order :> [user_id |-> u, amount |-> n * RupeesPerCredit, credits |-> n,
                        status |-> "created", razorpay_payment_id |-> NULL])
        /\ outcome' = Outcome("purchase_credits", 200, "created", u, NULL, order)
  /\ UNCHANGED <<service, codec, revoked_families, credits, tasks, celery, worker,
                 webhook_events, reqs, ledger>>

\* line 128: a payment row already carries this razorpay_payment_id
PaymentSeen(payment_id) ==
  \E o \in DOMAIN payments : payments[o].razorpay_payment_id = payment_id

\* line 137, negated: the payment row exists and the entity agrees with it
PayloadMatches(p) ==
  /\ p.order_id \in DOMAIN payments
  /\ payments[p.order_id].amount * PaisePerRupee = p.amount
  /\ p.currency = "INR"

\* secure_razorpay_webhook lines 87-119: the replay check on webhook_id, the
\* signature, the INSERT of the event row (primary key webhook_id) with its
\* commit, and the five-minute guard on the entity's created_at
Webhook_Record(r, wid, signed, p) ==
  /\ reqs[r].pc = "idle"
  /\ IF wid \in DOMAIN webhook_events
     THEN /\ outcome' = Outcome("webhook", 200, "duplicate", NULL, NULL, p.order_id)
          /\ UNCHANGED <<webhook_events, reqs>>
     ELSE IF ~signed
     THEN /\ outcome' = Outcome("webhook", 400, "invalid", NULL, NULL, p.order_id)
          /\ UNCHANGED <<webhook_events, reqs>>
     ELSE IF ~p.fresh
     THEN /\ webhook_events' = webhook_events @@ (wid :> "failed")
          /\ outcome' = Outcome("webhook", 400, "stale", NULL, NULL, p.order_id)
          /\ UNCHANGED reqs
     ELSE /\ webhook_events' = webhook_events @@ (wid :> "received")
          /\ reqs' = [reqs EXCEPT ![r] = [IdleReq EXCEPT !.op = "webhook", !.pc = "handle",
                                                         !.wid = wid, !.payload = p]]
          /\ outcome' = NoOutcome
  /\ UNCHANGED <<service, codec, revoked_families, credits, tasks, celery, worker, payments,
                 ledger>>

\* lines 122-143 and 158-161: another event is marked processed; for
\* payment.captured the idempotency check on razorpay_payment_id, the lookup
\* of the payment by order and the validation of amount and currency
Webhook_Handle(r) ==
  /\ reqs[r].pc = "handle"
  /\ LET me == reqs[r]
         p == me.payload
         end(status, code, result) ==
           /\ webhook_events' = [webhook_events EXCEPT ![me.wid] = status]
           /\ outcome' = Outcome("webhook", code, result, NULL, NULL, p.order_id)
           /\ reqs' = [reqs EXCEPT ![r] = IdleReq]
     IN IF p.event # "payment.captured" THEN end("processed", 200, "processed")
        ELSE IF PaymentSeen(p.id) THEN end("duplicate", 200, "duplicate")
        ELSE IF ~PayloadMatches(p) THEN end("failed", 400, "mismatch")
        ELSE /\ reqs' = [reqs EXCEPT ![r].pc = "pay", ![r].user = payments[p.order_id].user_id]
             /\ outcome' = NoOutcome
             /\ UNCHANGED webhook_events
  /\ UNCHANGED <<service, codec, revoked_families, credits, tasks, celery, worker, payments,
                 ledger>>

\* line 147, PaymentService.update_payment_status(order_id, "paid",
\* payment_id): the row of the order gets the status and the payment id, and
\* db.commit()
Webhook_Pay(r) ==
  /\ reqs[r].pc = "pay"
  /\ LET p == reqs[r].payload
     IN payments' = [payments EXCEPT ![p.order_id].status = "paid",
                                     ![p.order_id].razorpay_payment_id = p.id]
  /\ reqs' = [reqs EXCEPT ![r].pc = "credit"]
  /\ outcome' = NoOutcome
  /\ UNCHANGED <<service, codec, revoked_families, credits, tasks, celery, worker,
                 webhook_events, ledger>>

\* lines 148-150: add_credits(payment.user_id, payment.credits), then the
\* event is marked processed and committed
Webhook_Credit(r) ==
  /\ reqs[r].pc = "credit"
  /\ LET me == reqs[r]
         order == me.payload.order_id
         n == payments[order].credits
     IN /\ credits' = AfterAdd(me.user, n)
        /\ ledger' = IF CanAdd(me.user, n)
                     THEN [ledger EXCEPT !.credited[order] = @ + 1] ELSE ledger
        /\ webhook_events' = [webhook_events EXCEPT ![me.wid] = "processed"]
        /\ outcome' = Outcome("webhook", 200, "processed", me.user, NULL, order)
  /\ reqs' = [reqs EXCEPT ![r] = IdleReq]
  /\ UNCHANGED <<service, codec, revoked_families, tasks, celery, worker, payments>>

\* ---- access tokens (utils/auth.py) -----------------------------------------

\* jwt.encode(claims, key, algorithm): the claims under the signature of key
jwt_encode(claims, key) == [form |-> "jwt", key |-> key, claims |-> claims]

\* verify_token's None
NoClaims ==
  [sub |-> NULL, user_id |-> NULL, exp |-> NoTime, iat |-> NoTime, jti |-> NULL,
   token_type |-> "none"]

\* a string that is not a JWT ("invalid.jwt.token")
NotAJwt == [form |-> "malformed", key |-> NULL, claims |-> NoClaims]

\* jwt.decode(token, key, algorithms): JWTError (here NoClaims) for a string
\* that is not a JWT, for a signature made under another key and for an exp
\* in the past
jwt_decode(token, key, t) ==
  IF token.form # "jwt" \/ token.key # key \/ token.claims.exp < t THEN NoClaims
  ELSE token.claims

\* create_access_token at time t; a missing or zero expires_delta means
\* ACCESS_TOKEN_EXPIRE_MINUTES
create_access_token(data, expires_delta, jti, t) ==
  LET expire == IF expires_delta # 0 THEN t + expires_delta
                ELSE t + (ACCESS_TOKEN_EXPIRE_MINUTES \div MinutesPerDay)
  IN jwt_encode([sub |-> data.sub, user_id |-> data.user_id, exp |-> expire,
                 iat |-> t, jti |-> jti, token_type |-> "access"], JWT_SECRET)

\* uuid.uuid4() for the access token that create_token_pair mints with
\* session sid: one jti per token
SessionJti(sid) == sid

\* the lookup that also counts the token of an ended session as revoked
EndedOrBlacklisted(jti, blacklist, t) ==
  \/ jti \in DOMAIN blacklist /\ blacklist[jti].expires_at > t
  \/ \E x \in DOMAIN user_sessions : SessionJti(x) = jti /\ ~user_sessions[x].is_active

\* is_token_blacklisted at time t, over the token_blacklist table: a row for
\* the jti whose expires_at is still ahead
is_token_blacklisted(jti, blacklist, t) ==
  jti \in DOMAIN blacklist /\ blacklist[jti].expires_at > t

\* verify_token at time t, over the token_blacklist table
verify_token(token, blacklist, t) ==
  LET payload == jwt_decode(token, JWT_SECRET, t)
  IN IF payload = NoClaims THEN NoClaims
     ELSE IF payload.jti # NULL /\ is_token_blacklisted(payload.jti, blacklist, t) THEN NoClaims
     ELSE payload

\* token_service.py lines 34-36: the access token create_token_pair mints
\* for the login that created session sid
AccessTokenOf(sid) ==
  LET u == user_sessions[sid].user_id
  IN create_access_token([sub |-> users[u].email, user_id |-> u], 0, SessionJti(sid),
                         user_sessions[sid].created_at)

\* the claims a caller puts into a token: sub is the email, user_id the id
TokenData == {[sub |-> u, user_id |-> u] : u \in {1}}

\* every bearer token of the model: minted at some day, the same under a
\* client's key, or not a JWT
PresentableTokens ==
  LET claims == {create_access_token(data, d, jti, t).claims :
                   data \in TokenData, d \in ExpiresDeltas,
                   jti \in AccessJtis, t \in 0..JwtHorizon}
  IN {jwt_encode(c, k) : c \in claims, k \in SigningKeys} \cup {NotAJwt}

\* no verify_token call yet
NoDecode == [token |-> NotAJwt, out |-> NoClaims, at |-> NoTime]

\* the server mints an access token; the jti is a fresh uuid4
CreateAccessToken(data, expires_delta, jti) ==
  /\ Cardinality(access_tokens) < MaxMinted
  /\ \A a \in access_tokens : a.claims.jti # jti
  /\ access_tokens' = access_tokens \cup {create_access_token(data, expires_delta, jti, now)}
  /\ decoded' = NoDecode
  /\ UNCHANGED <<service, hour, issued, verified, revoked_families, billing>>

\* a request presents a bearer token and the server verifies it
VerifyToken(token) ==
  /\ \/ token \in access_tokens
     \/ token = NotAJwt
     \/ \E a \in access_tokens : token = [a EXCEPT !.key = token.key]
  /\ decoded' = [token |-> token, out |-> verify_token(token, token_blacklist, now), at |-> now]
  /\ UNCHANGED <<service, access_tokens, hour, issued, verified, revoked_families, billing>>

\* ---- SecureCookieManager (utils/cookie_security.py) ------------------------

\* a payload is a dict: its items in insertion order, each value a str, a
\* list or a tuple
Payloads ==
  { << >>,
    <<[key |-> 1, kind |-> "str", val |-> 1]>>,
    <<[key |-> 1, kind |-> "str", val |-> 2]>>,
    <<[key |-> 1, kind |-> "list", val |-> 1]>>,
    <<[key |-> 1, kind |-> "tuple", val |-> 1]>> }

\* json.dumps: a list and a tuple are both written as a JSON array
json_dumps(data) ==
  [i \in DOMAIN data |->
     [key |-> data[i].key,
      kind |-> IF data[i].kind \in {"list", "tuple"} THEN "array" ELSE "string",
      val |-> data[i].val]]

\* json.loads: a JSON array is read as a list
json_loads(text) ==
  [i \in DOMAIN text |->
     [key |-> text[i].key,
      kind |-> IF text[i].kind = "array" THEN "list" ELSE "str",
      val |-> text[i].val]]

\* hmac.new(key, msg, sha256).hexdigest(): equal digests only for equal key
\* and message
hmac_sha256(key, msg) == [key |-> key, msg |-> msg]

\* a signature field that is absent or empty
NoSignature == [key |-> NULL, msg |-> << >>]

\* datetime.isoformat / datetime.fromisoformat, over hours
isoformat(t) == IsoBase + t

fromisoformat(text) == text - IsoBase

\* fromisoformat raises on anything but an ISO string
IsIso(text) == text >= IsoBase

\* what verify_cookie_data returns: None, or the data
NoData == [some |-> FALSE, data |-> << >>]

SomeData(data) == [some |-> TRUE, data |-> data]

\* a string that is not the base64 of a JSON object
Malformed == [form |-> "malformed", data |-> << >>, signature |-> NoSignature, timestamp |-> NULL]

\* sign_cookie_data at time t: the base64 of the JSON of data, signature and
\* timestamp; the signature is over the compact JSON of data alone
sign_cookie_data(data, t) ==
  [form |-> "b64json",
   data |-> json_dumps(data),
   signature |-> hmac_sha256(JWT_SECRET, json_dumps(data)),
   timestamp |-> isoformat(t)]

\* datetime.utcnow() - cookie_time > timedelta(hours=24)
Expired(t, cookie_time) == t - cookie_time > CookieMaxAgeHours

\* hmac.compare_digest(signature, expected_signature)
SignatureMatches(signature, data) ==
  signature = hmac_sha256(JWT_SECRET, json_dumps(data))

\* verify_cookie_data at time t; every exception is caught and None returned
verify_cookie_data(signed_cookie, t) ==
  IF signed_cookie.form # "b64json" THEN NoData
  ELSE LET data == json_loads(signed_cookie.data)
           signature == signed_cookie.signature
           timestamp == signed_cookie.timestamp
       IN IF data = << >> \/ signature = NoSignature \/ timestamp = NULL THEN NoData
          ELSE IF ~SignatureMatches(signature, data) THEN NoData
          ELSE IF ~IsIso(timestamp) THEN NoData
          ELSE IF Expired(t, fromisoformat(timestamp)) THEN NoData
          ELSE SomeData(data)

\* no verification yet
NoVerify == [cookie |-> Malformed, out |-> NoData, at |-> NoTime]

\* what a client holding cookie c can send in its place: c with its data,
\* its signature or its timestamp replaced, or with data and a signature
\* made under a key of the client's own
Altered(c) ==
  {[c EXCEPT !.data = json_dumps(d)] : d \in Payloads}
    \cup {[c EXCEPT !.signature = g] :
            g \in {hmac_sha256(k, json_dumps(d)) : k \in ClientKeys, d \in Payloads}
                    \cup {NoSignature}}
    \cup {[c EXCEPT !.timestamp = ts] :
            ts \in {isoformat(h) : h \in Hours} \cup {NULL, NotIso}}
    \cup {[c EXCEPT !.data = json_dumps(d),
                    !.signature = hmac_sha256(k, json_dumps(d))] :
            k \in ClientKeys, d \in Payloads}

\* the cookies a request can carry
Presented ==
  {s.cookie : s \in issued} \cup UNION {Altered(s.cookie) : s \in issued} \cup {Malformed}

\* every cookie of the model: signed at some hour, altered, or malformed
Cookies ==
  LET signed == {sign_cookie_data(d, h) : d \in Payloads, h \in Hours}
  IN signed \cup UNION {Altered(c) : c \in signed} \cup {Malformed}

\* the server signs a payload and sets the cookie
SignCookieData(data) ==
  /\ Cardinality(issued) < MaxIssued
  /\ issued' = issued \cup {[cookie |-> sign_cookie_data(data, hour), data |-> data, at |-> hour]}
  /\ verified' = NoVerify
  /\ UNCHANGED <<hour, service, access_tokens, decoded, revoked_families, billing>>

\* a request presents a cookie and the server verifies it
VerifyCookieData(signed_cookie) ==
  /\ signed_cookie \in Presented
  /\ verified' = [cookie |-> signed_cookie,
                  out |-> verify_cookie_data(signed_cookie, hour),
                  at |-> hour]
  /\ UNCHANGED <<hour, issued, service, access_tokens, decoded, revoked_families, billing>>

\* h hours pass
HourPasses(h) ==
  /\ hour + h <= MaxHour
  /\ hour' = hour + h
  /\ verified' = NoVerify
  /\ UNCHANGED <<issued, service, access_tokens, decoded, revoked_families, billing>>

Init ==
  /\ users = [u \in {1} |->
                [email |-> u, hashed_password |-> get_password_hash(u),
                 is_active |-> TRUE, max_concurrent_sessions |-> SessionLimit,
                 last_login_at |-> NoTime, last_login_ip |-> NULL,
                 failed_login_attempts |-> 0]]
  /\ refresh_tokens = << >>
  /\ user_sessions = << >>
  /\ security_logs = {}
  /\ next_token_id = 1
  /\ next_session_id = 1
  /\ now = 0
  /\ autoflush \in BOOLEAN
  /\ token_blacklist = << >>
  /\ job = "idle"
  /\ calls = 0
  /\ procs = [p \in Procs |-> IdleProc]
  /\ ret = NoRet
  /\ rotations = [s \in Secrets |-> 0]
  /\ chain = [t \in Secrets |-> NULL]
  /\ failed_logins = [i \in IpAddresses |-> 0]
  /\ hour = 0
  /\ issued = {}
  /\ verified = NoVerify
  /\ access_tokens = {}
  /\ decoded = NoDecode
  /\ revoked_families = {}
  /\ credits = [u \in {1} |-> InitialCredits]
  /\ tasks = << >>
  /\ celery = {}
  /\ worker = IdleWorker
  /\ payments = << >>
  /\ webhook_events = << >>
  /\ reqs = [r \in Reqs |-> IdleReq]
  /\ outcome = NoOutcome
  /\ ledger = [charged |-> {}, refunded |-> [t \in TaskIds |-> 0],
               credited |-> [o \in OrderIds |-> 0], lost |-> 0]

Next ==
  \/ \E p \in Procs, u \in Users, ua \in UserAgents, ip \in LoginIps, remember \in BOOLEAN :
       CreateTokenPair_Read(p, u, ua, ip, remember)
  \/ \E p \in Procs : CreateTokenPair_Evict(p)
  \/ \E p \in Procs : CreateTokenPair_Commit(p)
  \/ \E p \in Procs, secret \in Secrets, ua \in UserAgents, ip \in IpAddresses,
        fp \in Fingerprints \cup {NULL} :
       RefreshAccessToken_Lookup(p, secret, ua, ip, fp)
  \/ \E p \in Procs : RefreshAccessToken_Commit(p)
  \/ \E p \in Procs, fam \in Secrets \cup {NULL} :
       RevokeTokenFamily_Call(p, fam, "security_breach")
  \/ \E p \in Procs : RevokeTokenFamily_Read(p)
  \/ \E p \in Procs : RevokeTokenFamily_Commit(p)
  \/ \E p \in Procs, secret \in Secrets : RevokeRefreshToken_Lookup(p, secret, "logout")
  \/ \E p \in Procs : RevokeRefreshToken_Commit(p)
  \/ \E p \in Procs, sid \in SessionIds : TerminateSession_Read(p, sid, "logout")
  \/ \E p \in Procs : TerminateSession_Commit(p)
  \/ \E p \in Procs, u \in Users : TerminateAll_Read(p, u, "logout_all")
  \/ \E p \in Procs : TerminateAll_Step(p)
  \/ \E p \in Procs, jti \in Jtis, d \in BlacklistDays : BlacklistToken(p, jti, now + d)
  \/ \E p \in Procs : Crash(p)
  \/ \E p \in Procs : LogInsertFails(p)
  \/ CleanupExpiredTokens
  \/ CleanupOldSecurityLogs
  \/ CleanupOrphanedSessions
  \/ \E d \in TickDays : Tick(d)

Spec == Init /\ [][Next]_vars

\* the login route with callers that are turned away, the refresh route, the
\* hourly scan and the cleanup job, over the lifetime of the audit log
AuditNext ==
  \/ \E email \in Emails, password \in Passwords, ip \in LoginIps :
       Login_Rejected(email, password, ip)
  \/ \E p \in Procs, u \in Users, ua \in UserAgents, ip \in LoginIps :
       CreateTokenPair_Read(p, u, ua, ip, FALSE)
  \/ \E p \in Procs : CreateTokenPair_Evict(p)
  \/ \E p \in Procs : CreateTokenPair_Commit(p)
  \/ \E p \in Procs, secret \in Secrets, ua \in UserAgents, ip \in LoginIps :
       RefreshAccessToken_Lookup(p, secret, ua, ip, NULL)
  \/ \E p \in Procs : RefreshAccessToken_Commit(p)
  \/ MonitorSuspiciousActivity
  \/ CleanupExpiredTokens
  \/ CleanupOldSecurityLogs
  \/ CleanupOrphanedSessions
  \/ \E d \in AuditTickDays : LongTick(d)

AuditSpec == Init /\ [][AuditNext]_vars

\* the login and refresh routes with accounts that an administrator
\* deactivates
AccountNext ==
  \/ \E p \in Procs, u \in Users, ua \in UserAgents, ip \in LoginIps, remember \in BOOLEAN :
       CreateTokenPair_Read(p, u, ua, ip, remember)
  \/ \E p \in Procs : CreateTokenPair_Evict(p)
  \/ \E p \in Procs : CreateTokenPair_Commit(p)
  \/ \E p \in Procs, secret \in Secrets, ua \in UserAgents, ip \in IpAddresses,
        fp \in Fingerprints \cup {NULL} :
       RefreshAccessToken_Lookup(p, secret, ua, ip, fp)
  \/ \E p \in Procs : RefreshAccessToken_Commit(p)
  \/ \E p \in Procs : RevokeTokenFamily_Read(p)
  \/ \E p \in Procs : RevokeTokenFamily_Commit(p)
  \/ \E p \in Procs, secret \in Secrets : RevokeRefreshToken_Lookup(p, secret, "logout")
  \/ \E p \in Procs : RevokeRefreshToken_Commit(p)
  \/ \E u \in Users : AccountDeactivated(u)
  \/ \E d \in TickDays : Tick(d)

AccountSpec == Init /\ [][AccountNext]_vars

\* the cookie manager alone: payloads signed, cookies presented as issued or
\* altered by the client, hours passing
CookieNext ==
  \/ \E data \in Payloads : SignCookieData(data)
  \/ \E signed_cookie \in Cookies : VerifyCookieData(signed_cookie)
  \/ \E h \in HourSteps : HourPasses(h)

CookieSpec == Init /\ [][CookieNext]_vars

\* the access-token codec and the blacklist: tokens minted, blacklisted,
\* presented as minted or re-signed by the client, the blacklist swept by the
\* cleanup job, days passing
JwtNext ==
  \/ \E data \in TokenData, expires_delta \in ExpiresDeltas, jti \in AccessJtis :
       CreateAccessToken(data, expires_delta, jti)
  \/ \E p \in Procs, jti \in AccessJtis, e \in BlacklistUntil : BlacklistToken(p, jti, e)
  \/ \E token \in PresentableTokens : VerifyToken(token)
  \/ CleanupExpiredTokens
  \/ CleanupOldSecurityLogs
  \/ CleanupOrphanedSessions
  \/ \E d \in JwtTickDays : TimePasses(d, JwtHorizon)

JwtSpec == Init /\ [][JwtNext]_vars

\* ---- task submission, the worker, purchases and webhooks ---------------------

BillingNext ==
  \/ \E r \in Reqs, u \in {1} : CreateTask_Insert(r, u)
  \/ \E r \in Reqs, store_error \in BOOLEAN : CreateTask_Deduct(r, store_error)
  \/ \E task_id \in TaskIds, retries \in 0..DbErrorRetries : Worker_Start(Message(task_id, 1, retries))
  \/ Worker_Completed
  \/ \E status_error \in BOOLEAN : Worker_ImageError(status_error)
  \/ \E limit \in RetryLimits, status_error \in BOOLEAN : Worker_Retry(limit, status_error)
  \/ Worker_Ack
  \/ Worker_Lost
  \/ \E n \in PurchaseSizes : PurchaseCredits(1, n)
  \/ \E r \in Reqs : Webhook_Record(r, 1, TRUE, Captured)
  \/ \E r \in Reqs : Webhook_Handle(r)
  \/ \E r \in Reqs : Webhook_Pay(r)
  \/ \E r \in Reqs : Webhook_Credit(r)
  \/ AccountDeactivated(1)

BillingSpec == Init /\ [][BillingNext]_vars

\* ---- purchases and webhook deliveries ----------------------------------------

PaymentNext ==
  \/ \E n \in PurchaseSizes : PurchaseCredits(1, n)
  \/ \E r \in Reqs, wid \in WebhookIds, signed \in BOOLEAN, p \in WebhookPayloads :
       Webhook_Record(r, wid, signed, p)
  \/ \E r \in Reqs : Webhook_Handle(r)
  \/ \E r \in Reqs : Webhook_Pay(r)
  \/ \E r \in Reqs : Webhook_Credit(r)
  \/ AccountDeactivated(1)

PaymentSpec == Init /\ [][PaymentNext]_vars

\* ---- properties ----------------------------------------------------------

\* a refresh presenting secret s is received in this step
RefreshStartedOn(s) ==
  /\ calls' = calls + 1
  /\ \/ ret'.op = "refresh" /\ ret'.secret = s
     \/ \E p \in Procs : Free(p) /\ procs'[p].op = "refresh" /\ procs'[p].secret = s

\* terminate_session(sid) is called in this step
TerminateStartedOn(sid) ==
  /\ calls' = calls + 1
  /\ \/ ret'.op = "terminate" /\ ret'.sid = sid
     \/ \E p \in Procs : Free(p) /\ procs'[p].op = "terminate" /\ procs'[p].sid = sid

\* revoke_refresh_token(s) is called in this step
RevokeStartedOn(s) ==
  /\ calls' = calls + 1
  /\ \/ ret'.op = "revoke" /\ ret'.secret = s
     \/ \E p \in Procs : Free(p) /\ procs'[p].op = "revoke" /\ procs'[p].secret = s

\* the sessions of family fam: the rows that reference one of its refresh
\* tokens, or for which one of them was minted
FamilySessions(fam) ==
  {x \in DOMAIN user_sessions :
     \E t \in DOMAIN refresh_tokens :
        /\ refresh_tokens[t].family_id = fam
        /\ (user_sessions[x].refresh_token_id = t \/ chain[t] = x)}

\* C1: in every reachable state the active, unexpired sessions of an account
\* number at most its max_concurrent_sessions.
C1_SessionLimit ==
  \A u \in Users : Cardinality(get_active_user_sessions(u)) <= max_sessions(u)

\* C2: of the refresh requests that present the same secret, at most one
\* succeeds in rotating it.
C2_OneRefreshWins == \A s \in Secrets : rotations[s] <= 1

\* C3: a refresh received after a refresh presenting the same secret has
\* succeeded is refused at once as unauthorized, and adds no refresh token row.
C3_ReplayRefused ==
  [][\A s \in Secrets :
       (RefreshStartedOn(s) /\ rotations[s] > 0) =>
          /\ ret'.op = "refresh" /\ ret'.result = "unauthorized"
          /\ refresh_tokens' = refresh_tokens
          /\ next_token_id' = next_token_id]_vars

\* C3 witness: a replayed secret has just been refused
C3_Witness == ret.op = "refresh" /\ ret.replay /\ ret.result = "unauthorized"

\* C4: a refresh that took the fingerprint-mismatch path returns unauthorized,
\* leaves no active refresh token in the presented token's family, and a
\* device_fingerprint_mismatch event of severity high is in the log.
C4_TheftResponse ==
  (ret.op = "refresh" /\ ret.reason = "security_breach") =>
     /\ ret.result = "unauthorized"
     /\ ActiveFamilyTokens(ret.fam) = {}
     /\ \E e \in security_logs :
          e.event_type = "device_fingerprint_mismatch" /\ e.severity = "high"

\* C5: a refresh whose request fingerprint differs from the fingerprint stored
\* on the presented token yields no new pair and leaves no active refresh
\* token in that token's family.
C5_ForeignDeviceRejected ==
  (ret.op = "refresh" /\ ret.foreign) =>
     ret.result # "ok" /\ ActiveFamilyTokens(ret.fam) = {}

\* C6: a refresh that presents the secret create_token_pair has just returned,
\* from the same client context and with nothing else running, succeeds; the
\* new secret differs from the presented one and the new row has the family_id
\* and the expires_at of the presented row.
C6_IssueThenRefresh ==
  (ret.op = "refresh" /\ ret.fresh /\ ret.solo) =>
     /\ ret.result = "ok"
     /\ ret.out # ret.secret
     /\ refresh_tokens[ret.out].token_hash # refresh_tokens[ret.tok].token_hash
     /\ refresh_tokens[ret.out].family_id = refresh_tokens[ret.tok].family_id
     /\ refresh_tokens[ret.out].expires_at = refresh_tokens[ret.tok].expires_at

\* C6 witness: such a refresh has returned its new pair, for a remember-me login
C6_Witness ==
  /\ ret.op = "refresh" /\ ret.fresh /\ ret.solo /\ ret.result = "ok"
  /\ refresh_tokens[ret.out].expires_at = now + RememberDays

\* C7: no step turns is_active of an existing refresh token or session row
\* from false to true, and a refresh received while the row of the presented
\* secret is inactive is refused at once as unauthorized.
C7_DeactivationOneWay ==
  [][/\ \A t \in DOMAIN refresh_tokens \cap DOMAIN refresh_tokens' :
          refresh_tokens'[t].is_active => refresh_tokens[t].is_active
     /\ \A x \in DOMAIN user_sessions \cap DOMAIN user_sessions' :
          user_sessions'[x].is_active => user_sessions[x].is_active
     /\ \A s \in Secrets :
          (/\ RefreshStartedOn(s)
           /\ s \in DOMAIN refresh_tokens
           /\ ~refresh_tokens[s].is_active) =>
             ret'.op = "refresh" /\ ret'.result = "unauthorized"]_vars

\* C7 witness: a secret that was deactivated otherwise than by rotation has
\* just been refused
C7_Witness ==
  /\ ret.op = "refresh" /\ ret.result = "unauthorized" /\ ~ret.replay
  /\ ret.secret \in DOMAIN refresh_tokens
  /\ ~refresh_tokens[ret.secret].is_active

C9_TerminateTwice ==
  [][/\ \A sid \in SessionIds :
          TerminateStartedOn(sid) =>
             IF sid \in DOMAIN user_sessions /\ user_sessions[sid].is_active
             THEN ret'.op # "terminate"
             ELSE /\ ret'.op = "terminate" /\ ret'.result = "false"
                  /\ user_sessions' = user_sessions
                  /\ refresh_tokens' = refresh_tokens
                  /\ security_logs' = security_logs
     /\ (ret'.op = "terminate" /\ ret'.solo /\ calls' = calls) => ret'.result = "true"
     /\ (ret'.op = "terminate" /\ ret'.solo) => ret'.result \in {"true", "false"}
     /\ (ret'.op = "terminate" /\ ret'.fresh) => ret'.result = "false"]_vars

\* C9 witness: the second of two calls in sequence has returned False and the
\* row still carries what the first call wrote
C9_Witness ==
  /\ ret.op = "terminate" /\ ret.fresh /\ ret.solo /\ ret.result = "false"
  /\ ret.sid \in DOMAIN user_sessions
  /\ user_sessions[ret.sid].termination_reason = "logout"
  /\ user_sessions[ret.sid].terminated_at = now

\* C10: when terminate_session has returned True for a session, no refresh
\* token minted for that session, at login or by any rotation since, is active.
C10_TerminateEndsCurrentToken ==
  (ret.op = "terminate" /\ ret.result = "true") =>
     \A t \in DOMAIN refresh_tokens : chain[t] = ret.sid => ~refresh_tokens[t].is_active

\* C11: when terminate_all_user_sessions returns, its result is the number of
\* sessions of the account that were active when it was called, each of them
\* is inactive and the refresh token it references is inactive, and, if nothing
\* else ran meanwhile, the account has no active session; no step of the call
\* changes a session or refresh token of another account.
C11_TerminateAll ==
  [][/\ (ret'.op = "terminate_all" /\ ret'.result = "count") =>
          /\ ret'.out = Cardinality(ret'.all)
          /\ \A s \in ret'.all \cap DOMAIN user_sessions' :
                /\ ~user_sessions'[s].is_active
                /\ \A t \in DOMAIN refresh_tokens' :
                      t = user_sessions'[s].refresh_token_id => ~refresh_tokens'[t].is_active
          /\ ret'.solo => ActiveSessionsIn(user_sessions', now', ret'.user) = {}
     /\ \A p \in Procs :
          (procs[p].pc = "terminate_all" /\ procs'[p].snap # procs[p].snap) =>
             /\ \A s \in DOMAIN user_sessions :
                   user_sessions[s].user_id # procs[p].user =>
                      s \in DOMAIN user_sessions' /\ user_sessions'[s] = user_sessions[s]
             /\ \A t \in DOMAIN refresh_tokens :
                   refresh_tokens[t].user_id # procs[p].user =>
                      t \in DOMAIN refresh_tokens' /\ refresh_tokens'[t] = refresh_tokens[t]]_vars

\* C12: revoke_refresh_token called with a secret that has no active row
\* returns False at once and writes nothing, otherwise it goes on to its
\* commit; when it returns True the row is inactive and the session of that
\* token (the one that references it, or for which it was minted) is inactive
\* with the given reason; called again right after it returned True for the
\* same secret it returns False.
C12_RevokeRefreshToken ==
  [][/\ \A s \in Secrets :
          RevokeStartedOn(s) =>
             IF \E t \in DOMAIN refresh_tokens :
                   refresh_tokens[t].token_hash = hash_token(s) /\ refresh_tokens[t].is_active
             THEN ret'.op # "revoke"
             ELSE /\ ret'.op = "revoke" /\ ret'.result = "false"
                  /\ refresh_tokens' = refresh_tokens
                  /\ user_sessions' = user_sessions
                  /\ security_logs' = security_logs
     /\ (ret'.op = "revoke" /\ ret'.result = "true") =>
          /\ ~refresh_tokens'[ret'.tok].is_active
          /\ \A x \in DOMAIN user_sessions' :
                (x = chain'[ret'.tok] \/ user_sessions'[x].refresh_token_id = ret'.tok) =>
                   /\ ~user_sessions'[x].is_active
                   /\ user_sessions'[x].termination_reason = ret'.reason
     /\ (ret'.op = "revoke" /\ ret'.fresh) => ret'.result = "false"]_vars

\* C13: the step in which revoke_token_family(fam, reason), called on its own,
\* returns its count leaves no active refresh token in fam, leaves every
\* session of fam inactive, with the given reason if the step ended it,
\* returns the number of rows the step deactivated, and changes no refresh
\* token and no session of another family.
C13_RevokeFamily ==
  [][(ret'.op = "revoke_family" /\ ret'.result = "count") =>
       LET fam == ret'.fam
       IN /\ \A t \in DOMAIN refresh_tokens' :
                refresh_tokens'[t].family_id = fam => ~refresh_tokens'[t].is_active
          /\ \A x \in FamilySessions(fam) :
                /\ x \in DOMAIN user_sessions'
                /\ ~user_sessions'[x].is_active
                /\ user_sessions[x].is_active =>
                      user_sessions'[x].termination_reason = ret'.reason
          /\ ret'.out = Cardinality({t \in DOMAIN refresh_tokens :
                                       /\ refresh_tokens[t].is_active
                                       /\ ~refresh_tokens'[t].is_active})
          /\ \A t \in DOMAIN refresh_tokens :
                refresh_tokens[t].family_id # fam =>
                   t \in DOMAIN refresh_tokens' /\ refresh_tokens'[t] = refresh_tokens[t]
          /\ \A x \in DOMAIN user_sessions \ FamilySessions(fam) :
                x \in DOMAIN user_sessions' /\ user_sessions'[x] = user_sessions[x]]_vars

\* C14: the step that commits a rotation deactivates the presented row,
\* inserts its active successor in the same family and takes every session off
\* the presented row, all at once; a successor row appears in no other step; a
\* rotated row is never in the table without another row of its family; a
\* refresh that dies before its commit leaves refresh tokens, sessions and
\* events as they were.
C14_RotationAtomic ==
  [][/\ \A s \in Secrets :
          rotations'[s] > rotations[s] =>
             /\ ~refresh_tokens'[s].is_active
             /\ next_token_id \in DOMAIN refresh_tokens' \ DOMAIN refresh_tokens
             /\ refresh_tokens'[next_token_id].is_active
             /\ refresh_tokens'[next_token_id].family_id = refresh_tokens'[s].family_id
             /\ \A x \in DOMAIN user_sessions :
                   user_sessions[x].refresh_token_id = s =>
                      user_sessions'[x].refresh_token_id # s
     /\ \A t \in DOMAIN refresh_tokens' \ DOMAIN refresh_tokens :
          (\E o \in DOMAIN refresh_tokens :
              refresh_tokens[o].family_id = refresh_tokens'[t].family_id) =>
             \E s \in Secrets : rotations'[s] > rotations[s]
     /\ \A s \in Secrets :
          (rotations[s] > 0 /\ s \in DOMAIN refresh_tokens) =>
             \E t \in DOMAIN refresh_tokens :
                t # s /\ refresh_tokens[t].family_id = refresh_tokens[s].family_id
     /\ (ret'.op = "crashed" /\ ret'.result = "refresh") =>
          /\ refresh_tokens' = refresh_tokens
          /\ user_sessions' = user_sessions
          /\ security_logs' = security_logs
          /\ rotations' = rotations]_vars

\* C14 witness: a refresh died after the SELECT of line 199 had flushed the
\* deactivation and the successor; the presented row is active and a session
\* references it
C14_Witness ==
  /\ ret.op = "crashed" /\ ret.result = "refresh" /\ autoflush
  /\ ret.tok \in DOMAIN refresh_tokens
  /\ refresh_tokens[ret.tok].is_active
  /\ SessionsOfToken(ret.tok) # {}
  /\ \A t \in DOMAIN refresh_tokens :
       refresh_tokens[t].family_id = ret.fam => t = ret.tok

\* C15: a create_token_pair that dies after line 50, before its commit of line
\* 107, leaves no refresh token row, no session row, no change of the account
\* row and no login_success event: the tables are as they were before the
\* failure, and no row carries the ids the call would have used.
C15_IssueAllOrNothing ==
  [][\A p \in Procs :
       (procs[p].pc = "login_insert" /\ procs'[p].pc = "idle" /\ ret'.op = "crashed") =>
          /\ refresh_tokens' = refresh_tokens
          /\ user_sessions' = user_sessions
          /\ users' = users
          /\ security_logs' = security_logs
          /\ next_token_id \notin DOMAIN refresh_tokens'
          /\ next_session_id \notin DOMAIN user_sessions']_vars

\* C15 witness: the login that died had found the account at its limit and
\* was the account's first login to get that far; its eviction, committed at
\* line 308 before line 50, stays
C15_Witness ==
  /\ ret.op = "crashed" /\ ret.result = "login" /\ ret.full /\ ret.solo
  /\ ret.sid \in DOMAIN user_sessions
  /\ user_sessions[ret.sid].termination_reason = "session_limit_exceeded"
  /\ Cardinality(get_active_user_sessions(ret.user)) = max_sessions(ret.user) - 1
  /\ ~\E e \in security_logs : e.event_type = "login_success" /\ e.created_at = now

\* C16: whenever no Token Service operation is in progress, every session is
\* active iff the refresh token it references is active, and every active
\* refresh token is referenced by an active session.
C16_PairedLifecycle ==
  (\A p \in Procs : Free(p)) =>
     /\ \A x \in DOMAIN user_sessions :
          user_sessions[x].is_active <=>
             /\ user_sessions[x].refresh_token_id \in DOMAIN refresh_tokens
             /\ refresh_tokens[user_sessions[x].refresh_token_id].is_active
     /\ \A t \in DOMAIN refresh_tokens :
          refresh_tokens[t].is_active =>
             \E x \in DOMAIN user_sessions :
                user_sessions[x].refresh_token_id = t /\ user_sessions[x].is_active

\* C17: the step in which a refresh returns its new pair adds no session row,
\* and every session that referenced the presented row references the row
\* inserted in that step and carries the time and the address of the request.
C17_SessionRepointed ==
  [][\A p \in Procs :
       (/\ procs[p].pc = "refresh_commit" /\ procs'[p].pc = "idle"
        /\ ret'.op = "refresh" /\ ret'.result = "ok") =>
          /\ DOMAIN user_sessions' = DOMAIN user_sessions
          /\ ret'.out \in DOMAIN refresh_tokens' \ DOMAIN refresh_tokens
          /\ \A x \in DOMAIN user_sessions :
                user_sessions[x].refresh_token_id = procs[p].tok =>
                   /\ user_sessions'[x].refresh_token_id = ret'.out
                   /\ user_sessions'[x].last_activity_at = now
                   /\ user_sessions'[x].ip_address = procs[p].ip]_vars

\* C18: a refresh that presents a row whose expires_at is not after now is
\* turned away, swept or not; and when cleanup_expired_tokens has run, no
\* refresh token, session or blacklist row with expires_at <= now is left.
C18_ExpiredUnusableAndSwept ==
  [][/\ \A s \in DOMAIN refresh_tokens :
          (RefreshStartedOn(s) /\ refresh_tokens[s].expires_at <= now) =>
             (ret'.op = "refresh" /\ ret'.result = "unauthorized")
     /\ ret'.op = "cleanup_tokens" =>
          /\ \A t \in DOMAIN refresh_tokens' : refresh_tokens'[t].expires_at > now
          /\ \A x \in DOMAIN user_sessions' : user_sessions'[x].expires_at > now
          /\ \A j \in DOMAIN token_blacklist' : token_blacklist'[j].expires_at > now]_vars

\* C19: in a cleanup run the sub-steps do not depend on each other's outcome:
\* after the expired-row sweep, failed or not, the security-log purge is the
\* next sub-step of the run, and after the purge the orphaned-session cleanup.
C19_SubStepsIndependent ==
  [][/\ ret'.op = "cleanup_tokens" => job' = "logs"
     /\ ret'.op = "cleanup_logs" => job' = "orphans"]_vars

\* the refresh tokens of session x: the row it references and the rows
\* minted for it
TokensOfSession(x) ==
  {t \in DOMAIN refresh_tokens :
     user_sessions[x].refresh_token_id = t \/ chain[t] = x}

\* C20: when cleanup_orphaned_sessions has run, no active session references
\* an inactive or missing refresh token; the sessions it ended carry the
\* reason orphaned_cleanup; and no session it ended had an active refresh
\* token of its own.
C20_OrphanedCleanup ==
  [][ret'.op = "cleanup_orphans" =>
       /\ \A x \in DOMAIN user_sessions' :
             user_sessions'[x].is_active =>
                /\ user_sessions'[x].refresh_token_id \in DOMAIN refresh_tokens'
                /\ refresh_tokens'[user_sessions'[x].refresh_token_id].is_active
       /\ \A x \in DOMAIN user_sessions :
             (user_sessions[x].is_active /\ ~user_sessions'[x].is_active) =>
                /\ user_sessions'[x].termination_reason = "orphaned_cleanup"
                /\ \A t \in TokensOfSession(x) : ~refresh_tokens[t].is_active]_vars

\* a row that is active, unexpired and used within the idle threshold
LiveRow(row, last) ==
  row.is_active /\ row.expires_at > now /\ last > now - InactiveDays

\* C21: a step of the cleanup run leaves every refresh token and every session
\* that is active, unexpired and recently used in place and active, and it
\* leaves in place the row that a refresh in flight has presented, so that the
\* refresh still commits.
C21_CleanupSpares ==
  [][ret'.op \in {"cleanup_tokens", "cleanup_logs", "cleanup_orphans"} =>
       /\ \A t \in DOMAIN refresh_tokens :
             LiveRow(refresh_tokens[t], refresh_tokens[t].last_used_at) =>
                t \in DOMAIN refresh_tokens' /\ refresh_tokens'[t].is_active
       /\ \A x \in DOMAIN user_sessions :
             LiveRow(user_sessions[x], user_sessions[x].last_activity_at) =>
                x \in DOMAIN user_sessions' /\ user_sessions'[x].is_active
       /\ \A p \in Procs :
             (procs[p].pc = "refresh_commit" /\ procs[p].tok \in DOMAIN refresh_tokens) =>
                procs[p].tok \in DOMAIN refresh_tokens']_vars

\* the request in slot p, on the fingerprint-mismatch path of refresh, takes a
\* turn of revoke_token_family in this step
TheftResponseStep(p) ==
  /\ procs[p].op = "refresh" /\ procs[p].pc = "family_commit"
  /\ (procs'[p].pc = "idle" \/ procs'[p].snap # procs[p].snap)

\* C22: every session that the fingerprint-mismatch path of refresh ends gets
\* termination_reason "suspicious", and when that refresh has returned no
\* session of the presented token's family is active.
C22_TheftEndsSessions ==
  [][\A p \in Procs :
       TheftResponseStep(p) =>
          /\ \A x \in DOMAIN user_sessions :
                (user_sessions[x].is_active /\ ~user_sessions'[x].is_active) =>
                   user_sessions'[x].termination_reason = "suspicious"
          /\ (ret'.op = "refresh" /\ ret'.result = "unauthorized") =>
                (\A x \in FamilySessions(ret.fam) : ~user_sessions[x].is_active)']_vars

\* C23: whenever a turn of the theft response commits a change to the refresh
\* tokens or the sessions, the device_fingerprint_mismatch event of that
\* request is in the log of the same committed state; a turn that does not
\* commit, and a crash, change neither table.
C23_TheftLoggedWithRevocation ==
  [][\A p \in Procs :
       (/\ TheftResponseStep(p)
        /\ (refresh_tokens' # refresh_tokens \/ user_sessions' # user_sessions)) =>
          \E e \in security_logs' :
             /\ e.event_type = "device_fingerprint_mismatch"
             /\ e.user_id = procs[p].user /\ e.ip_address = procs[p].ip
             /\ e.created_at <= now]_vars

\* C23 witness: a theft response has returned, the presented row is inactive
\* and the event is in the log
C23_Witness ==
  /\ ret.op = "refresh" /\ ret.reason = "security_breach" /\ ret.result = "unauthorized"
  /\ ret.tok \in DOMAIN refresh_tokens /\ ~refresh_tokens[ret.tok].is_active
  /\ \E x \in DOMAIN user_sessions : user_sessions[x].termination_reason = "security_breach"
  /\ \E e \in security_logs : e.event_type = "device_fingerprint_mismatch"

\* C24: a refresh whose secret matches no active, unexpired refresh token is
\* answered 401, and when the request is over an invalid_refresh_token event
\* of category suspicious and severity medium is in the log.
C24_InvalidTokenLogged ==
  [][\A s \in Secrets :
       (RefreshStartedOn(s) /\ FindActiveUnexpired(s) = {}) =>
          /\ ret'.op = "refresh" /\ ret'.http.status = 401
          /\ \E e \in security_logs' :
                /\ e.event_type = "invalid_refresh_token"
                /\ e.event_category = "suspicious" /\ e.severity = "medium"]_vars

\* C25: a refresh that presents an active, unexpired refresh token whose
\* account is inactive is answered 401 in the step that receives it, no
\* refresh token, session or event row is added or changed, and the presented
\* token is still active.
C25_InactiveOwnerRefused ==
  [][\A s \in Secrets :
       (/\ RefreshStartedOn(s)
        /\ FindActiveUnexpired(s) # {}
        /\ \A t \in FindActiveUnexpired(s) : ~users[refresh_tokens[t].user_id].is_active) =>
          /\ ret'.op = "refresh" /\ ret'.http.status = 401
          /\ refresh_tokens' = refresh_tokens
          /\ user_sessions' = user_sessions
          /\ security_logs' = security_logs
          /\ \A t \in FindActiveUnexpired(s) : refresh_tokens'[t].is_active]_vars

\* C25 witness: the refresh of a live token was refused because its account
\* is inactive
C25_Witness ==
  /\ ret.op = "refresh" /\ ret.result = "unauthorized"
  /\ ret.tok \in DOMAIN refresh_tokens
  /\ refresh_tokens[ret.tok].is_active /\ refresh_tokens[ret.tok].expires_at > now
  /\ ~users[ret.user].is_active

\* the rows that carry the hash of secret s
RowsOfSecret(s) ==
  {t \in DOMAIN refresh_tokens : refresh_tokens[t].token_hash = hash_token(s)}

\* why the refresh of secret s is going to fail: no row carries its hash; its
\* row is expired; its row is inactive, rotated away or revoked; the account
\* of its row is inactive
RefusalCause(s) ==
  \/ RowsOfSecret(s) = {}
  \/ \E t \in RowsOfSecret(s) : refresh_tokens[t].expires_at <= now
  \/ \E t \in RowsOfSecret(s) : ~refresh_tokens[t].is_active /\ rotations[s] > 0
  \/ \E t \in RowsOfSecret(s) : ~refresh_tokens[t].is_active /\ rotations[s] = 0
  \/ \E t \in RowsOfSecret(s) : ~users[refresh_tokens[t].user_id].is_active

\* C26: a refresh of an unknown, expired, rotated-away or revoked token, of a
\* token of an inactive account, and a refresh that took the
\* fingerprint-mismatch path all get the one answer 401 "Invalid or expired
\* refresh token".
C26_UniformRefusal ==
  [][/\ \A s \in Secrets :
          (RefreshStartedOn(s) /\ RefusalCause(s)) =>
             /\ ret'.op = "refresh"
             /\ ret'.http = [status |-> 401, detail |-> "Invalid or expired refresh token"]
     /\ \A p \in Procs :
          (TheftResponseStep(p) /\ ret'.op = "refresh") =>
             ret'.http = [status |-> 401, detail |-> "Invalid or expired refresh token"]]_vars

\* C26 witness: refreshes were refused for a revoked token and, before that,
\* on the fingerprint-mismatch path
C26_Witness ==
  /\ ret.op = "refresh" /\ ret.result = "unauthorized" /\ ret.http.status = 401
  /\ ret.tok = NULL /\ RowsOfSecret(ret.secret) # {} /\ rotations[ret.secret] = 0
  /\ \E x \in DOMAIN user_sessions : user_sessions[x].termination_reason = "security_breach"

\* C27: a login that authenticate_user refuses, for an email of no account or
\* for a wrong password of an existing account, is answered 401 "Incorrect
\* email or password" in both cases.
C27_UniformLoginRejection ==
  (ret.op = "login" /\ ret.result = "rejected" /\ ret.reason = "failed_login") =>
     ret.http = [status |-> 401, detail |-> "Incorrect email or password"]

\* C27 witness: a login with the email of an existing, active account and a
\* wrong password was refused
C27_Witness ==
  /\ ret.op = "login" /\ ret.result = "rejected" /\ ret.reason = "failed_login"
  /\ ret.user \in DOMAIN users /\ users[ret.user].is_active
  /\ ret.http.status = 401

\* C28: when the security event of a create_token_pair or of a rotation
\* cannot be persisted, the refresh token of the call is committed all the
\* same and the caller gets the pair.
C28_LoggingNeverAborts ==
  [][\A p \in Procs :
       (/\ procs[p].pc \in {"login_insert", "refresh_commit"}
        /\ procs'[p].pc = "idle" /\ ret'.op = "log_failed") =>
          /\ next_token_id \in DOMAIN refresh_tokens'
          /\ refresh_tokens'[next_token_id].is_active
          /\ ret'.http.status = 200]_vars

\* C29: a step other than the retention cleanup keeps every event of the log
\* as it is; the retention cleanup adds and changes no event, keeps every
\* event younger than the retention window and deletes every event older
\* than it.
C29_AppendOnlyLog ==
  [][IF ret'.op = "cleanup_logs"
     THEN /\ security_logs' \subseteq security_logs
          /\ \A e \in security_logs :
                /\ now - e.created_at < RetentionDays => e \in security_logs'
                /\ now - e.created_at > RetentionDays => e \notin security_logs'
     ELSE security_logs \subseteq security_logs']_vars

\* C29 witness: the retention cleanup has deleted the oldest event and kept a
\* younger one
C29_Witness ==
  /\ ret.op = "cleanup_logs"
  /\ security_logs # {}
  /\ \A e \in security_logs : e.id > 1 /\ now - e.created_at < RetentionDays

\* C30: a scan that runs when at least SUSPICIOUS_ACTIVITY_THRESHOLD logins
\* from one address were refused within the monitoring window counts that
\* address among the suspicious ones; the scan changes no account, no token
\* and no session.
C30_FailedLoginsFlagged ==
  [][ret'.op = "monitor" =>
       /\ \A ip \in IpAddresses :
             failed_logins[ip] >= SUSPICIOUS_ACTIVITY_THRESHOLD => ip \in ret'.all
       /\ users' = users
       /\ refresh_tokens' = refresh_tokens
       /\ user_sessions' = user_sessions]_vars

\* C31: a cookie returned by sign_cookie_data verifies to the payload it was
\* signed for when presented within 24 hours of signing, and to None when
\* presented later than that
C31_RoundTrip ==
  \A s \in issued :
    (verified.at # NoTime /\ verified.cookie = s.cookie) =>
      verified.out = IF verified.at - s.at <= CookieMaxAgeHours
                     THEN SomeData(s.data) ELSE NoData

\* C32: verify_cookie_data returns None for every presented cookie that is
\* not one sign_cookie_data returned, and for every cookie presented more
\* than 24 hours after it was signed
C32_FailsClosed ==
  verified.at # NoTime =>
    LET source == {s \in issued : s.cookie = verified.cookie}
    IN (source = {} \/ \E s \in source : verified.at - s.at > CookieMaxAgeHours)
         => verified.out = NoData

\* C33: verify_token returns the claims (sub, user_id) of an unexpired token
\* minted by create_access_token whose jti has no blacklist row, returns None
\* for a string that is not a JWT and for an expired token, and keeps
\* returning None for a minted token whose jti has been blacklisted for as
\* long as the token has not reached its own expiry
C33_VerifyToken ==
  [][/\ (decoded'.at # NoTime /\ decoded'.at = now') =>
          LET token == decoded'.token
              out == decoded'.out
          IN /\ (token \in access_tokens' /\ token.claims.exp >= decoded'.at
                    /\ token.claims.jti \notin DOMAIN token_blacklist') =>
                  (out.sub = token.claims.sub /\ out.user_id = token.claims.user_id)
             /\ (token.form # "jwt" \/ token.claims.exp < decoded'.at) => out = NoClaims
     /\ \A a \in access_tokens :
          (a.claims.jti \in DOMAIN token_blacklist /\ now' < a.claims.exp) =>
             verify_token(a, token_blacklist', now') = NoClaims]_vars

\* C34: every refresh-token family has at most one active refresh token
C34_OneActivePerFamily ==
  \A fam \in Secrets : Cardinality(ActiveFamilyTokens(fam)) <= 1

\* C35: from the moment revoke_token_family has returned for a family, called
\* on its own or as the theft response, no refresh token of that family is
\* active, whatever refresh was in flight at the time
C35_RevocationPermanent ==
  \A fam \in revoked_families : ActiveFamilyTokens(fam) = {}

\* verify_token accepts the access token minted with session sid
PassesVerifyToken(sid) ==
  verify_token(AccessTokenOf(sid), token_blacklist, now) = AccessTokenOf(sid).claims

\* a step of the token service, not of the cleanup job, in which a session
\* ends or a refresh token goes inactive
RevocationStep ==
  /\ ret'.op \notin {"cleanup_tokens", "cleanup_logs", "cleanup_orphans"}
  /\ \/ \E x \in DOMAIN user_sessions :
          user_sessions[x].is_active /\ ~user_sessions'[x].is_active
     \/ \E t \in DOMAIN refresh_tokens :
          refresh_tokens[t].is_active /\ ~refresh_tokens'[t].is_active

\* C36: a step in which the token service revokes a refresh token or ends a
\* session (revoke_refresh_token, revoke_token_family, terminate_session,
\* terminate_all_user_sessions, the eviction at the session limit) leaves the
\* token_blacklist table as it was, and the access token minted with a
\* session passes verify_token after the step if it passed before it
C36_RevocationLeavesBlacklist ==
  [][RevocationStep =>
       /\ token_blacklist' = token_blacklist
       /\ \A x \in DOMAIN user_sessions :
            PassesVerifyToken(x) => PassesVerifyToken(x)']_vars

\* C36 witness: terminate_session has just ended a session, and the access
\* token minted with that session still passes verify_token
C36_Witness ==
  /\ ret.op = "terminate" /\ ret.result = "true"
  /\ ret.sid \in DOMAIN user_sessions
  /\ ~user_sessions[ret.sid].is_active
  /\ PassesVerifyToken(ret.sid)

\* the step in which request r runs deduct_credit and create_task goes on or
\* raises
DeductStep(r) == reqs[r].pc = "deduct" /\ reqs'[r].pc = "idle"

\* C37: under every interleaving of task submissions, refunds by the worker
\* and purchases, no balance is below 0, and deduct_credit returns True
\* exactly when it took 1 credit from the balance of an active account; when
\* it returns False the balances are as before
C37_DeductCredit ==
  /\ [](\A u \in DOMAIN credits : credits[u] >= 0)
  /\ [][\A r \in Reqs : DeductStep(r) =>
          LET u == reqs[r].user
          IN /\ (outcome'.result = "deducted") <=>
                  (users[u].is_active /\ credits[u] > 0 /\ credits'[u] = credits[u] - 1)
             /\ outcome'.result # "deducted" => credits' = credits
             /\ \A v \in DOMAIN credits \ {u} : credits'[v] = credits[v]]_vars

\* C37 witness: two submissions passed the balance check on the last credit;
\* deduct_credit took it for one and has just returned False for the other,
\* with the account active and the balance at 0
C37_Witness ==
  /\ outcome.op = "create_task" /\ outcome.result = "not_deducted"
  /\ users[outcome.user].is_active
  /\ credits[outcome.user] = 0
  /\ ledger.charged # {}

\* C38: when deduct_credit has returned False for a submission, no row of
\* that submission is in the tasks table and no job of it is at the broker;
\* every task row whose submission is over was paid for with one credit
C38_NoTaskWithoutCredit ==
  /\ outcome.result = "not_deducted" =>
       /\ outcome.task \notin DOMAIN tasks
       /\ \A msg \in celery : msg.task # outcome.task
  /\ \A id \in DOMAIN tasks :
       (\A r \in Reqs : reqs[r].task # id) => id \in ledger.charged

\* task id was paid for and no delivery of its job is left at the broker
Ended(id) == id \in ledger.charged /\ \A msg \in celery : msg.task # id

\* C39: over all retries and redeliveries of its job a task is refunded at
\* most once; a task that has ended is refunded exactly when its status is
\* failed, and never when its status is completed
C39_RefundOnceIfFailed ==
  \A id \in DOMAIN tasks :
    /\ ledger.refunded[id] <= 1
    /\ Ended(id) =>
         /\ ledger.refunded[id] > 0 => tasks[id].status = "failed"
         /\ tasks[id].status = "failed" => ledger.refunded[id] = 1
         /\ tasks[id].status = "completed" => ledger.refunded[id] = 0

\* C40: however many payment.captured webhooks arrive for a payment, with
\* the same or with different event ids, one after another or at the same
\* time, the credits of an order are added to the balance at most once
C40_CreditedAtMostOnce ==
  \A order \in DOMAIN payments :
    /\ ledger.credited[order] <= 1
    /\ credits[payments[order].user_id] <= InitialCredits + payments[order].credits

====
